---- MODULE Spec2Model ----
(***************************************************************************)
(* Change-detection and reconciliation core of the catalog tracker:        *)
(* db_utils.py (Reconciler, Sweeper, Snapshot Exporter, manual edits),     *)
(* driven by main.run_all, scraper_static.run_static_scraper,              *)
(* file_monitor.monitor_local_file_changes and the HTTP API.               *)
(*                                                                         *)
(* Tables are sequences of rows; a row's id is its index (SERIAL ids,      *)
(* rows are never removed).  Text values are strings; Python's None / SQL  *)
(* NULL in a text or numeric column is the sentinel None.  Timestamps are  *)
(* integers read from a clock; a NULL timestamp is NoTime.                 *)
(***************************************************************************)
EXTENDS Integers, Sequences, FiniteSets, TLC

VARIABLES
    products,         \* table products
    files,            \* table files
    events,           \* table events (append-only)
    disk,             \* local download directory: path -> content or Missing
    results_json,     \* data/results.json as last written
    files_json,       \* data/files.json as last written
    events_json,      \* data/events.json as last written
    clock,            \* datetime.now(timezone.utc)
    pc,               \* position of the scheduler process inside run_all
    run_ts,           \* run_all's run_ts
    static_products,  \* truthiness of run_all's static_products list
    dynamic_products, \* truthiness of run_all's dynamic_products list
    records,          \* monitor_local_file_changes: records still to visit
    cursor,           \* position of the loop of the current phase
    ncalls,           \* scheduler jobs and API requests started so far
    last,             \* history: the db_utils call the last step made, and
                      \* the store it was made on
    run_log,          \* history: what the current run of run_all has done
    tx,               \* statement-level view: the transaction of the connection
                      \* get_conn opened, with its uncommitted store
    conns,            \* overlapping calls: what each connection has SELECTed,
                      \* and whether the tables have a unique constraint on url
    io,               \* chunk-level view of data/results.json: its content,
                      \* the export_products_to_json calls writing it, and
                      \* what load_json read last
    site              \* what the scraped site and the deployment show to
                      \* every run, where they are held fixed

vars == <<products, files, events, disk, results_json, files_json, events_json,
          clock, pc, run_ts, static_products, dynamic_products, records,
          cursor, ncalls, last, run_log, tx, conns, io, site>>

db == <<products, files, events>>
exportv == <<results_json, files_json, events_json>>
runv == <<pc, run_ts, static_products, dynamic_products, records, cursor>>

----------------------------------------------------------------------------
(* Bounds of the model *)

\* entry-point invocations: scheduler jobs, API requests, changes of local files
MaxCalls == 3

\* the runs of the lifecycle scenario: T1 .. T4
LifecycleRuns == 4

\* db_utils calls of the statement-level specification
TxCalls == 3

----------------------------------------------------------------------------
(* Values *)

None == "\\N"
NoTime == 0
Missing == "<missing>"

NoArg == [none |-> TRUE]

\* The category lists these URLs, CatalogUrls[i] on page i.
CatalogUrls == <<"http://x/1", "http://x/2">>
MAX_PAGES == 3
DynamicMaxPages == 1
\* float prices as parse_price returns them, in Python's str() form: the
\* prices a card of CatalogUrls[i] may show
Prices(i) == IF i = 1 THEN {"500000.0", "550000.0"} ELSE {"315000.5"}
\* the prices the browser-rendered card may show
DynamicPrices(i) == {"500000.0"}
StaticCategory == "MercadoLibre - Computacion"
DynamicCategory == "MercadoLibre - Dinamico"

\* The card of CatalogUrls[i] as a scraper parses it.
Card(i, category, price) ==
    [url |-> CatalogUrls[i],
     name |-> IF i = 1 THEN "Laptop A" ELSE "Laptop B",
     brand |-> IF i = 1 THEN "ASUS" ELSE None,
     category |-> category,
     image_url |-> None,
     price |-> price,
     currency |-> "CRC",
     page |-> i]

\* STATIC_FILE_URLS, and the filename download_static_files derives from each
STATIC_FILE_URLS == <<"http://x/a.pdf">>
FileNames == <<"a.pdf">>
DOWNLOADS_DIR == "downloads"
LocalPath(i) == DOWNLOADS_DIR \o "/" \o FileNames[i]
Paths == {LocalPath(i) : i \in DOMAIN FileNames}
Contents == {"%PDF v1", "%PDF v2"}
MimeType == "application/pdf"

----------------------------------------------------------------------------
(* History of the last step *)

NoCall == [op |-> "none", caller |-> "none", id |-> 0, arg |-> NoArg, ts |-> NoTime,
           ret |-> "", status |-> 0,
           pre |-> [products |-> <<>>, files |-> <<>>, events |-> <<>>]]

\* No connection is open
NoTx == [state |-> "none", todo |-> <<>>,
         products |-> <<>>, files |-> <<>>, events |-> <<>>]

\* The connections of overlapping calls: none has a call under way
Conns == {1, 2}
NoSelect == [state |-> "none", arg |-> NoArg, ts |-> NoTime, seen |-> [id |-> 0]]
NoConns == [url_unique |-> TRUE, call |-> [c \in Conns |-> NoSelect]]

\* data/results.json does not exist, nobody writes or has read it
Writers == {"run_all", "api"}
NoWriter == [state |-> "none", rows |-> <<>>, pos |-> 0]
NoIo == [exists |-> FALSE, file |-> <<>>,
         writer |-> [w \in Writers |-> NoWriter],
         read |-> [done |-> FALSE, rows |-> <<>>, exported |-> {}],
         exported |-> {}, begun |-> {}, overlapped |-> FALSE]

\* The site is not held fixed: every run may observe anything
NoSite == [listed |-> {}, price |-> "", dynamic |-> FALSE, document |-> Missing]

\* caller called op(id or arg, ts) on the store as it is now
Call(op, caller, id, arg, ts) ==
    [op |-> op, caller |-> caller, id |-> id, arg |-> arg, ts |-> ts,
     ret |-> "", status |-> 0,
     pre |-> [products |-> products, files |-> files, events |-> events]]

\* The call returned ret; a handler of the API answered it with status
\* (0: the caller is no handler)
Returned(call, ret, status) ==
    [call EXCEPT !.ret = ret, !.status = status]

\* the ids of the rows of tbl that are active
Active(tbl) == {i \in DOMAIN tbl : tbl[i].is_active}

\* run_log after the run called op on the products: the call, and whether
\* it turned a product from active to inactive
LoggedProducts(op) ==
    run_log \cup {op}
            \cup (IF Active(products) \ Active(products') # {}
                  THEN {"product deactivated"} ELSE {})

\* the same for a call on the files
LoggedFiles(op) ==
    run_log \cup {op}
            \cup (IF Active(files) \ Active(files') # {}
                  THEN {"file deactivated"} ELSE {})

----------------------------------------------------------------------------
(* Fingerprinting *)

\* An f-string field: str(v)
Fmt(v) == IF v = None THEN "None" ELSE v

Sha256(s) == "sha256:" \o s

\* faulty variant: the price is left out of the canonical string
compute_product_hash_unpriced(product) ==
    Sha256(Fmt(product.name) \o "|" \o Fmt(product.brand) \o "|"
           \o Fmt(product.category) \o "|" \o Fmt(product.url) \o "|"
           \o Fmt(product.image_url))

compute_product_hash(product) ==
    Sha256(Fmt(product.name) \o "|" \o Fmt(product.brand) \o "|"
           \o Fmt(product.category) \o "|" \o Fmt(product.price) \o "|"
           \o Fmt(product.url) \o "|" \o Fmt(product.image_url))

compute_file_hash_value(content) == Sha256(content)

----------------------------------------------------------------------------
(* Event Log *)

add_event(evts, entity_type, entity_id, event_type) ==
    Append(evts, [entity_type |-> entity_type, entity_id |-> entity_id,
                  event_type |-> event_type])

----------------------------------------------------------------------------
(* Reconciler, products *)

\* SELECT ... FROM products WHERE url = %s (a NULL parameter matches no row)
ProductIdsByUrl(prods, url) ==
    {i \in DOMAIN prods : url # None /\ prods[i].url = url}

\* faulty variant: the new row keeps no last_seen_at
InsertProductUnseen(prods, product, ts) ==
    Append(prods,
           [id |-> Len(prods) + 1, url |-> product.url, name |-> product.name,
            brand |-> product.brand, category |-> product.category,
            image_url |-> product.image_url, price |-> product.price,
            currency |-> product.currency, page |-> product.page,
            first_seen_at |-> ts, last_seen_at |-> NoTime, last_change_at |-> NoTime,
            data_hash |-> compute_product_hash(product), is_active |-> TRUE])

InsertProduct(prods, product, ts) ==
    Append(prods,
           [id |-> Len(prods) + 1,
            url |-> product.url,
            name |-> product.name,
            brand |-> product.brand,
            category |-> product.category,
            image_url |-> product.image_url,
            price |-> product.price,
            currency |-> product.currency,
            page |-> product.page,
            first_seen_at |-> ts,
            last_seen_at |-> ts,
            last_change_at |-> NoTime,
            data_hash |-> compute_product_hash(product),
            is_active |-> TRUE])

\* faulty variant: every sighting counts as a change
TouchProductAsChange(prods, id, ts) ==
    [prods EXCEPT ![id].last_seen_at = ts, ![id].last_change_at = ts]

\* faulty variant: the UPDATE of last_seen_at is left out
TouchProductNot(prods, id, ts) == prods

TouchProduct(prods, id, ts) ==
    [prods EXCEPT ![id].last_seen_at = ts]

\* faulty variant: the change is stored without last_change_at
OverwriteProductUnstamped(prods, id, product, ts) ==
    [prods EXCEPT ![id].name = product.name,
                  ![id].brand = product.brand,
                  ![id].category = product.category,
                  ![id].image_url = product.image_url,
                  ![id].price = product.price,
                  ![id].currency = product.currency,
                  ![id].page = product.page,
                  ![id].data_hash = compute_product_hash(product),
                  ![id].is_active = TRUE]

\* faulty variant: the change also rewrites first_seen_at
OverwriteProductFirstSeen(prods, id, product, ts) ==
    [prods EXCEPT ![id].name = product.name,
                  ![id].brand = product.brand,
                  ![id].category = product.category,
                  ![id].image_url = product.image_url,
                  ![id].price = product.price,
                  ![id].currency = product.currency,
                  ![id].page = product.page,
                  ![id].data_hash = compute_product_hash(product),
                  ![id].first_seen_at = ts,
                  ![id].last_change_at = ts,
                  ![id].is_active = TRUE]

OverwriteProduct(prods, id, product, ts) ==
    [prods EXCEPT ![id].name = product.name,
                  ![id].brand = product.brand,
                  ![id].category = product.category,
                  ![id].image_url = product.image_url,
                  ![id].price = product.price,
                  ![id].currency = product.currency,
                  ![id].page = product.page,
                  ![id].data_hash = compute_product_hash(product),
                  ![id].last_change_at = ts,
                  ![id].is_active = TRUE]

\* faulty variant: reactivation leaves last_change_at as it was
ReactivateProductUnstamped(prods, id, ts) ==
    [prods EXCEPT ![id].is_active = TRUE]

ReactivateProduct(prods, id, ts) ==
    [prods EXCEPT ![id].is_active = TRUE, ![id].last_change_at = ts]

\* The committed effect of upsert_product(product, run_ts) on <<products, events>>,
\* row being the id the SELECT returned (0: no row).
UpsertProductEffect(prods, evts, product, ts, row) ==
    IF row = 0
    THEN [products |-> InsertProduct(prods, product, ts),
          events |-> add_event(evts, "product", Len(prods) + 1, "created")]
    ELSE IF prods[row].data_hash # compute_product_hash(product)
    THEN [products |-> OverwriteProduct(TouchProduct(prods, row, ts), row, product, ts),
          events |-> add_event(evts, "product", row, "updated")]
    ELSE IF ~prods[row].is_active
    THEN [products |-> ReactivateProduct(TouchProduct(prods, row, ts), row, ts),
          events |-> add_event(evts, "product", row, "reactivated")]
    ELSE [products |-> TouchProduct(prods, row, ts),
          events |-> evts]

upsert_product(product, ts) ==
    \E row \in IF ProductIdsByUrl(products, product.url) = {}
               THEN {0} ELSE ProductIdsByUrl(products, product.url) :
        LET eff == UpsertProductEffect(products, events, product, ts, row) IN
        /\ products' = eff.products
        /\ events' = eff.events

----------------------------------------------------------------------------
(* Sweeper, products *)

\* faulty variant: last_seen_at <= %s, which sweeps what the run has just seen
StaleOrSeenProducts(prods, ts) ==
    {i \in DOMAIN prods : prods[i].is_active /\ prods[i].last_seen_at <= ts}

\* SELECT id FROM products WHERE is_active = TRUE AND last_seen_at < %s
StaleProducts(prods, ts) ==
    {i \in DOMAIN prods : prods[i].is_active /\ prods[i].last_seen_at < ts}

RECURSIVE AddEvents(_, _, _, _, _)
\* add_event for every id of ids, in ascending id order
AddEvents(evts, entity_type, ids, event_type, n) ==
    IF n = 0 THEN evts
    ELSE LET before == AddEvents(evts, entity_type, ids, event_type, n - 1) IN
         IF n \in ids THEN add_event(before, entity_type, n, event_type) ELSE before

\* faulty variant: DELETE FROM products instead of the UPDATE
DeleteMissingProductsEffect(prods, evts, ts) ==
    LET rows == StaleProducts(prods, ts) IN
    [products |-> SelectSeq(prods, LAMBDA r : r.id \notin rows),
     events |-> AddEvents(evts, "product", rows, "deleted", Len(prods))]

MarkMissingProductsEffect(prods, evts, ts) ==
    LET rows == StaleProducts(prods, ts) IN
    [products |-> [i \in DOMAIN prods |->
                      IF i \in rows
                      THEN [prods[i] EXCEPT !.is_active = FALSE, !.last_change_at = ts]
                      ELSE prods[i]],
     events |-> AddEvents(evts, "product", rows, "deleted", Len(prods))]

mark_missing_products(ts) ==
    LET eff == MarkMissingProductsEffect(products, events, ts) IN
    /\ products' = eff.products
    /\ events' = eff.events

----------------------------------------------------------------------------
(* Reconciler, files *)

\* SELECT ... FROM files WHERE url = %s (a NULL parameter matches no row)
FileIdsByUrl(fls, url) ==
    {i \in DOMAIN fls : url # None /\ fls[i].url = url}

InsertFile(fls, file_info, ts) ==
    Append(fls,
           [id |-> Len(fls) + 1,
            url |-> file_info.url,
            filename |-> file_info.filename,
            local_path |-> file_info.local_path,
            mime_type |-> file_info.mime_type,
            hash |-> file_info.hash,
            first_seen_at |-> ts,
            last_seen_at |-> ts,
            last_change_at |-> NoTime,
            is_active |-> TRUE])

\* faulty variant: seeing the file again counts as a change
TouchFileAsChange(fls, id, ts) ==
    [fls EXCEPT ![id].last_seen_at = ts, ![id].last_change_at = ts]

TouchFile(fls, id, ts) ==
    [fls EXCEPT ![id].last_seen_at = ts]

OverwriteFile(fls, id, file_info, ts) ==
    [fls EXCEPT ![id].filename = file_info.filename,
                ![id].local_path = file_info.local_path,
                ![id].mime_type = file_info.mime_type,
                ![id].hash = file_info.hash,
                ![id].last_change_at = ts,
                ![id].is_active = TRUE]

ReactivateFile(fls, id, ts) ==
    [fls EXCEPT ![id].is_active = TRUE, ![id].last_change_at = ts]

\* The event type upsert_file_record logs for a changed hash
FileChangedEvent == "file_changed"

\* The committed effect of upsert_file_record(file_info, run_ts) on <<files, events>>,
\* row being the id the SELECT returned (0: no row).
UpsertFileEffect(fls, evts, file_info, ts, row) ==
    IF row = 0
    THEN [files |-> InsertFile(fls, file_info, ts),
          events |-> add_event(evts, "file", Len(fls) + 1, "created")]
    ELSE IF fls[row].hash # file_info.hash
    THEN [files |-> OverwriteFile(TouchFile(fls, row, ts), row, file_info, ts),
          events |-> add_event(evts, "file", row, FileChangedEvent)]
    ELSE IF ~fls[row].is_active
    THEN [files |-> ReactivateFile(TouchFile(fls, row, ts), row, ts),
          events |-> add_event(evts, "file", row, "reactivated")]
    ELSE [files |-> TouchFile(fls, row, ts),
          events |-> evts]

upsert_file_record(file_info, ts) ==
    \E row \in IF FileIdsByUrl(files, file_info.url) = {}
               THEN {0} ELSE FileIdsByUrl(files, file_info.url) :
        LET eff == UpsertFileEffect(files, events, file_info, ts, row) IN
        /\ files' = eff.files
        /\ events' = eff.events

----------------------------------------------------------------------------
(* Sweeper, files *)

\* SELECT id, filename, local_path FROM files WHERE is_active = TRUE AND last_seen_at < %s
StaleFiles(fls, ts) ==
    {i \in DOMAIN fls : fls[i].is_active /\ fls[i].last_seen_at < ts}

MarkMissingFilesEffect(fls, evts, ts) ==
    LET rows == StaleFiles(fls, ts) IN
    [files |-> [i \in DOMAIN fls |->
                   IF i \in rows
                   THEN [fls[i] EXCEPT !.is_active = FALSE, !.last_change_at = ts]
                   ELSE fls[i]],
     events |-> AddEvents(evts, "file", rows, "deleted", Len(fls))]

\* The local artifacts the sweep tries to remove: local_path set and existing
Removable(fls, dsk, ts) ==
    {fls[i].local_path : i \in {j \in StaleFiles(fls, ts) :
        fls[j].local_path \notin {None, ""} /\ dsk[fls[j].local_path] # Missing}}

\* os.remove of every path of removed (those of failed raise OSError, which is logged)
RemoveLocal(dsk, removed) ==
    [p \in DOMAIN dsk |-> IF p \in removed THEN Missing ELSE dsk[p]]

\* faulty variant: an OSError of os.remove leaves the with block, and the
\* connection is closed without commit
mark_missing_files_strict(ts) ==
    LET eff == MarkMissingFilesEffect(files, events, ts) IN
    \E failed \in SUBSET Removable(files, disk, ts) :
        /\ disk' = RemoveLocal(disk, Removable(files, disk, ts) \ failed)
        /\ IF failed = {}
           THEN files' = eff.files /\ events' = eff.events
           ELSE UNCHANGED <<files, events>>

mark_missing_files(ts) ==
    LET eff == MarkMissingFilesEffect(files, events, ts) IN
    /\ files' = eff.files
    /\ events' = eff.events
    /\ \E failed \in SUBSET Removable(files, disk, ts) :
          disk' = RemoveLocal(disk, Removable(files, disk, ts) \ failed)

\* SELECT ... FROM files [WHERE is_active = TRUE]
fetch_file_records(fls, active_only) ==
    {fls[i] : i \in {j \in DOMAIN fls : ~active_only \/ fls[j].is_active}}

----------------------------------------------------------------------------
(* Snapshot Exporter *)

\* ORDER BY last_seen_at DESC (rows of equal last_seen_at: by id, one of the
\* orders the database may return)
RECURSIVE SortByLastSeenDesc(_)
SortByLastSeenDesc(rows) ==
    IF rows = {} THEN <<>>
    ELSE LET top == CHOOSE r \in rows : \A q \in rows :
                        \/ q.last_seen_at < r.last_seen_at
                        \/ (q.last_seen_at = r.last_seen_at /\ q.id >= r.id)
         IN <<top>> \o SortByLastSeenDesc(rows \ {top})

ProductSnapshotRow(r) ==
    [id |-> r.id, url |-> r.url, name |-> r.name, brand |-> r.brand,
     category |-> r.category, image_url |-> r.image_url, price |-> r.price,
     currency |-> r.currency, page |-> r.page,
     first_seen_at |-> r.first_seen_at, last_seen_at |-> r.last_seen_at,
     last_change_at |-> r.last_change_at, is_active |-> r.is_active]

ExportProducts(prods) ==
    SortByLastSeenDesc({ProductSnapshotRow(prods[i]) : i \in DOMAIN prods})

export_products_to_json ==
    results_json' = ExportProducts(products')

FileSnapshotRow(r) ==
    [id |-> r.id, url |-> r.url, filename |-> r.filename, local_path |-> r.local_path,
     mime_type |-> r.mime_type, hash |-> r.hash,
     first_seen_at |-> r.first_seen_at, last_seen_at |-> r.last_seen_at,
     last_change_at |-> r.last_change_at, is_active |-> r.is_active]

ExportFiles(fls) ==
    SortByLastSeenDesc({FileSnapshotRow(fls[i]) : i \in DOMAIN fls})

export_files_to_json ==
    files_json' = ExportFiles(files')

\* ORDER BY created_at DESC: latest event first
ExportEvents(evts) ==
    [i \in 1..Len(evts) |->
        [id |-> Len(evts) + 1 - i,
         entity_type |-> evts[Len(evts) + 1 - i].entity_type,
         entity_id |-> evts[Len(evts) + 1 - i].entity_id,
         event_type |-> evts[Len(evts) + 1 - i].event_type]]

export_events_to_json ==
    events_json' = ExportEvents(events')

----------------------------------------------------------------------------
(* Manual-edit interface *)

\* dict(base) with updates[key] for every allowed key that updates has
_merge_updates(base, updates, allowed) ==
    [key \in DOMAIN base \cup (allowed \cap DOMAIN updates) |->
        IF key \in allowed /\ key \in DOMAIN updates THEN updates[key] ELSE base[key]]

ProductAllowed == {"name", "brand", "category", "image_url", "price", "currency", "is_active"}
FileAllowed == {"filename", "local_path", "mime_type", "is_active"}

\* update_*_record returns the row it wrote, or None when the id has no row
UpdateReturns(tbl, id) ==
    IF id \in DOMAIN tbl THEN "row" ELSE None

\* deactivate_*_record returns whether the id had a row
DeactivateReturns(tbl, id) ==
    IF id \in DOMAIN tbl THEN "True" ELSE "False"

\* The handlers answer 404 to None and to False
HttpStatus(ret) ==
    IF ret \in {None, "False"} THEN 404 ELSE 200

\* deactivate_product_record without its add_event
deactivate_product_record_unlogged(product_id, now) ==
    IF product_id \notin DOMAIN products
    THEN UNCHANGED <<products, events, results_json>>
    ELSE /\ products' = [products EXCEPT ![product_id].is_active = FALSE,
                                         ![product_id].last_change_at = now]
         /\ UNCHANGED events
         /\ export_products_to_json

\* The row update_product_record writes for merged at time now
EditedProduct(row, merged, now) ==
    [row EXCEPT !.name = merged.name,
                !.brand = merged.brand,
                !.category = merged.category,
                !.image_url = merged.image_url,
                !.price = merged.price,
                !.currency = merged.currency,
                !.last_change_at = now,
                !.data_hash = compute_product_hash(merged),
                !.is_active = merged.is_active]

\* update_product_record that exports also when the id has no row
update_product_record_exporting(product_id, updates, now) ==
    IF product_id \notin DOMAIN products
    THEN /\ UNCHANGED <<products, events>>
         /\ export_products_to_json
    ELSE LET merged == _merge_updates(products[product_id], updates, ProductAllowed) IN
         /\ products' = [products EXCEPT ![product_id] =
                             EditedProduct(products[product_id], merged, now)]
         /\ events' = add_event(events, "product", product_id, "updated")
         /\ export_products_to_json

update_product_record(product_id, updates, now) ==
    IF product_id \notin DOMAIN products
    THEN UNCHANGED <<products, events, results_json>>
    ELSE LET merged == _merge_updates(products[product_id], updates, ProductAllowed) IN
         /\ products' = [products EXCEPT
                           ![product_id] = EditedProduct(products[product_id], merged, now)]
         /\ events' = add_event(events, "product", product_id, "updated")
         /\ export_products_to_json

deactivate_product_record(product_id, now) ==
    IF product_id \notin DOMAIN products
    THEN UNCHANGED <<products, events, results_json>>
    ELSE /\ products' = [products EXCEPT ![product_id].is_active = FALSE,
                                         ![product_id].last_change_at = now]
         /\ events' = add_event(events, "product", product_id, "deleted")
         /\ export_products_to_json

\* The row update_file_record writes for merged at time now
EditedFile(row, merged, now) ==
    [row EXCEPT !.filename = merged.filename,
                !.local_path = merged.local_path,
                !.mime_type = merged.mime_type,
                !.last_change_at = now,
                !.is_active = merged.is_active]

update_file_record(file_id, updates, now) ==
    IF file_id \notin DOMAIN files
    THEN UNCHANGED <<files, events, files_json>>
    ELSE LET merged == _merge_updates(files[file_id], updates, FileAllowed) IN
         /\ files' = [files EXCEPT ![file_id] = EditedFile(files[file_id], merged, now)]
         /\ events' = add_event(events, "file", file_id, "updated")
         /\ export_files_to_json

deactivate_file_record(file_id, now) ==
    IF file_id \notin DOMAIN files
    THEN UNCHANGED <<files, events, files_json>>
    ELSE /\ files' = [files EXCEPT ![file_id].is_active = FALSE,
                                   ![file_id].last_change_at = now]
         /\ events' = add_event(events, "file", file_id, "deleted")
         /\ export_files_to_json

\* JSON payloads the API is called with
ProductPayloads ==
    { [price |-> "600000", page |-> 7],
      [currency |-> "USD", is_active |-> FALSE] }

FilePayloads ==
    { [filename |-> "renamed.pdf", hash |-> "x"],
      [local_path |-> LocalPath(1), is_active |-> TRUE] }

----------------------------------------------------------------------------
(* file_monitor.monitor_local_file_changes, one record per step *)

\* The record the loop visits next
NextRecord == CHOOSE r \in records : \A q \in records : r.id <= q.id

MonitorFrame ==
    UNCHANGED <<products, disk, results_json, events_json, pc, run_ts,
                static_products, dynamic_products, cursor, ncalls>>

\* no local_path, an unreadable file, or an unchanged hash: nothing to do
MonitorSkip ==
    /\ UNCHANGED <<tx, conns, io, site>>
    /\ pc = "monitor"
    /\ records # {}
    /\ LET record == NextRecord IN
       /\ record.local_path \notin {None, ""} => disk[record.local_path] # Missing
       /\ records' = records \ {record}
    /\ last' = NoCall
    /\ UNCHANGED run_log
    /\ UNCHANGED <<files, events, files_json, clock>>
    /\ MonitorFrame

\* the local file is gone: deactivate_file_record(record["id"])
MonitorLost ==
    /\ UNCHANGED <<tx, conns, io, site>>
    /\ pc = "monitor"
    /\ records # {}
    /\ LET record == NextRecord IN
       /\ record.local_path \notin {None, ""}
       /\ disk[record.local_path] = Missing
       /\ clock' = clock + 1
       /\ deactivate_file_record(record.id, clock')
       /\ last' = Returned(Call("deactivate_file_record", "monitor", record.id,
                                 NoArg, clock'),
                            DeactivateReturns(files, record.id), 0)
       /\ run_log' = LoggedFiles("deactivate_file_record")
       /\ records' = records \ {record}
    /\ MonitorFrame

\* the local content changed: upsert_file_record with the new hash
MonitorChanged ==
    /\ UNCHANGED <<tx, conns, io, site>>
    /\ pc = "monitor"
    /\ records # {}
    /\ LET record == NextRecord IN
       /\ record.local_path \notin {None, ""}
       /\ disk[record.local_path] # Missing
       /\ compute_file_hash_value(disk[record.local_path]) # record.hash
       /\ LET file_info == [url |-> record.url,
                             filename |-> record.filename,
                             local_path |-> record.local_path,
                             mime_type |-> record.mime_type,
                             hash |-> compute_file_hash_value(disk[record.local_path])]
          IN /\ upsert_file_record(file_info, run_ts)
             /\ last' = Call("upsert_file_record", "monitor", 0, file_info, run_ts)
             /\ run_log' = LoggedFiles("upsert_file_record")
       /\ records' = records \ {record}
    /\ UNCHANGED <<files_json, clock>>
    /\ MonitorFrame

MonitorDone ==
    /\ UNCHANGED <<tx, conns, io, site>>
    /\ pc = "monitor"
    /\ records = {}
    /\ pc' = "static"
    /\ cursor' = 1
    /\ last' = NoCall
    /\ UNCHANGED run_log
    /\ UNCHANGED <<db, disk, exportv, clock, run_ts, static_products,
                   dynamic_products, records, ncalls>>

\* the pages a scraper visits: 1..max_pages, as far as the category has pages
LastPage(max_pages) == IF max_pages < Len(CatalogUrls) THEN max_pages ELSE Len(CatalogUrls)

----------------------------------------------------------------------------
(* scraper_static.iterate_category_pages and download_static_files,
   scraper_dynamic.run_dynamic_scraper: one card or file URL per step *)

ScrapeFrame ==
    UNCHANGED <<files, disk, exportv, clock, pc, run_ts, records, ncalls>>

\* the card of CatalogUrls[cursor] is on the page: upsert_product
StaticObserve ==
    /\ UNCHANGED <<tx, conns, io, site>>
    /\ pc = "static"
    /\ cursor <= LastPage(MAX_PAGES)
    /\ \E price \in Prices(cursor) :
          /\ upsert_product(Card(cursor, StaticCategory, price), run_ts)
          /\ last' = Call("upsert_product", "static", 0,
                          Card(cursor, StaticCategory, price), run_ts)
          /\ run_log' = LoggedProducts("upsert_product")
    /\ static_products' = TRUE
    /\ cursor' = cursor + 1
    /\ UNCHANGED dynamic_products
    /\ ScrapeFrame

\* CatalogUrls[cursor] is not listed, or is dropped for a missing price
StaticSkip ==
    /\ UNCHANGED <<tx, conns, io, site>>
    /\ pc = "static"
    /\ cursor <= LastPage(MAX_PAGES)
    /\ cursor' = cursor + 1
    /\ last' = NoCall
    /\ UNCHANGED run_log
    /\ UNCHANGED <<db, static_products, dynamic_products>>
    /\ ScrapeFrame

StaticDone ==
    /\ UNCHANGED <<tx, conns, io, site>>
    /\ pc = "static"
    /\ cursor > LastPage(MAX_PAGES)
    /\ pc' = "download"
    /\ cursor' = 1
    /\ last' = NoCall
    /\ UNCHANGED run_log
    /\ UNCHANGED <<db, disk, exportv, clock, run_ts, static_products,
                   dynamic_products, records, ncalls>>

\* STATIC_FILE_URLS[cursor] answers 200: write the content, upsert_file_record
DownloadFile ==
    /\ UNCHANGED <<tx, conns, io, site>>
    /\ pc = "download"
    /\ cursor <= Len(STATIC_FILE_URLS)
    /\ \E content \in Contents :
          /\ disk' = [disk EXCEPT ![LocalPath(cursor)] = content]
          /\ LET file_info == [url |-> STATIC_FILE_URLS[cursor],
                                filename |-> FileNames[cursor],
                                local_path |-> LocalPath(cursor),
                                mime_type |-> MimeType,
                                hash |-> compute_file_hash_value(content)]
             IN /\ upsert_file_record(file_info, run_ts)
                /\ last' = Call("upsert_file_record", "download", 0, file_info, run_ts)
                /\ run_log' = LoggedFiles("upsert_file_record")
    /\ cursor' = cursor + 1
    /\ UNCHANGED <<products, exportv, clock, pc, run_ts, static_products,
                   dynamic_products, records, ncalls>>

\* another status, or a RequestException: logged, next URL
DownloadFail ==
    /\ UNCHANGED <<tx, conns, io, site>>
    /\ pc = "download"
    /\ cursor <= Len(STATIC_FILE_URLS)
    /\ cursor' = cursor + 1
    /\ last' = NoCall
    /\ UNCHANGED run_log
    /\ UNCHANGED <<db, disk, exportv, clock, pc, run_ts, static_products,
                   dynamic_products, records, ncalls>>

\* run_static_scraper returns; ENABLE_DYNAMIC_SCRAPER decides the next phase
DownloadDone ==
    /\ UNCHANGED <<tx, conns, io, site>>
    /\ pc = "download"
    /\ cursor > Len(STATIC_FILE_URLS)
    /\ \E enabled \in BOOLEAN :
          pc' = IF enabled THEN "dynamic" ELSE "sweep"
    /\ cursor' = 1
    /\ last' = NoCall
    /\ UNCHANGED run_log
    /\ UNCHANGED <<db, disk, exportv, clock, run_ts, static_products,
                   dynamic_products, records, ncalls>>

DynamicObserve ==
    /\ UNCHANGED <<tx, conns, io, site>>
    /\ pc = "dynamic"
    /\ cursor <= LastPage(DynamicMaxPages)
    /\ \E price \in DynamicPrices(cursor) :
          /\ upsert_product(Card(cursor, DynamicCategory, price), run_ts)
          /\ last' = Call("upsert_product", "dynamic", 0,
                          Card(cursor, DynamicCategory, price), run_ts)
          /\ run_log' = LoggedProducts("upsert_product")
    /\ dynamic_products' = TRUE
    /\ cursor' = cursor + 1
    /\ UNCHANGED static_products
    /\ ScrapeFrame

DynamicSkip ==
    /\ UNCHANGED <<tx, conns, io, site>>
    /\ pc = "dynamic"
    /\ cursor <= LastPage(DynamicMaxPages)
    /\ cursor' = cursor + 1
    /\ last' = NoCall
    /\ UNCHANGED run_log
    /\ UNCHANGED <<db, static_products, dynamic_products>>
    /\ ScrapeFrame

DynamicDone ==
    /\ UNCHANGED <<tx, conns, io, site>>
    /\ pc = "dynamic"
    /\ cursor > LastPage(DynamicMaxPages)
    /\ pc' = "sweep"
    /\ last' = NoCall
    /\ UNCHANGED run_log
    /\ UNCHANGED <<db, disk, exportv, clock, run_ts, static_products,
                   dynamic_products, records, cursor, ncalls>>

----------------------------------------------------------------------------
(* main.run_all *)

Init ==
    /\ products = <<>>
    /\ files = <<>>
    /\ events = <<>>
    /\ disk = [p \in Paths |-> Missing]
    /\ results_json = <<>>
    /\ files_json = <<>>
    /\ events_json = <<>>
    /\ clock = 0
    /\ pc = "idle"
    /\ run_ts = NoTime
    /\ static_products = FALSE
    /\ dynamic_products = FALSE
    /\ records = {}
    /\ cursor = 0
    /\ ncalls = 0
    /\ last = NoCall
    /\ run_log = {}
    /\ tx = NoTx
    /\ conns = NoConns
    /\ io = NoIo
    /\ site = NoSite

\* run_ts = now; run_static_scraper begins with the file monitor, which
\* fetches the active file records
StartRunWithin(max_calls) ==
    /\ UNCHANGED <<tx, conns, io, site>>
    /\ pc = "idle"
    /\ ncalls < max_calls
    /\ ncalls' = ncalls + 1
    /\ clock' = clock + 1
    /\ run_ts' = clock'
    /\ static_products' = FALSE
    /\ dynamic_products' = FALSE
    /\ records' = fetch_file_records(files, TRUE)
    /\ pc' = "monitor"
    /\ cursor' = 0
    /\ last' = NoCall
    /\ run_log' = {}
    /\ UNCHANGED <<db, disk, exportv>>

StartRun == StartRunWithin(MaxCalls)

RunFrame ==
    UNCHANGED <<exportv, clock, run_ts, static_products, dynamic_products,
                records, cursor, ncalls>>

SweepProducts ==
    /\ UNCHANGED <<tx, conns, io, site>>
    /\ pc = "sweep"
    /\ static_products \/ dynamic_products
    /\ mark_missing_products(run_ts)
    /\ last' = Call("mark_missing_products", "run_all", 0, NoArg, run_ts)
    /\ run_log' = LoggedProducts("mark_missing_products")
    /\ pc' = "sweep_files"
    /\ UNCHANGED <<files, disk>>
    /\ RunFrame

\* faulty variant: after the files' sweep the run comes back to the sweeps
SweepFilesAgain ==
    /\ UNCHANGED <<tx, conns, io, site>>
    /\ pc = "sweep_files"
    /\ mark_missing_files(run_ts)
    /\ last' = Call("mark_missing_files", "run_all", 0, NoArg, run_ts)
    /\ run_log' = LoggedFiles("mark_missing_files")
    /\ pc' = "sweep"
    /\ UNCHANGED products
    /\ RunFrame

SweepFiles ==
    /\ UNCHANGED <<tx, conns, io, site>>
    /\ pc = "sweep_files"
    /\ mark_missing_files(run_ts)
    /\ last' = Call("mark_missing_files", "run_all", 0, NoArg, run_ts)
    /\ run_log' = LoggedFiles("mark_missing_files")
    /\ pc' = "export_products"
    /\ UNCHANGED products
    /\ RunFrame

\* no product observed: the sweep is skipped with a warning
SkipSweep ==
    /\ UNCHANGED <<tx, conns, io, site>>
    /\ pc = "sweep"
    /\ ~(static_products \/ dynamic_products)
    /\ pc' = "export_products"
    /\ last' = NoCall
    /\ UNCHANGED run_log
    /\ UNCHANGED <<db, disk>>
    /\ RunFrame

ExportStep ==
    /\ UNCHANGED <<tx, conns, io, site>>
    /\ pc \in {"export_products", "export_files", "export_events"}
    /\ UNCHANGED <<db, disk, clock, run_ts, static_products, dynamic_products,
                   records, cursor, ncalls>>
    /\ CASE pc = "export_products" ->
              /\ export_products_to_json
              /\ UNCHANGED <<files_json, events_json>>
              /\ pc' = "export_files"
         [] pc = "export_files" ->
              /\ export_files_to_json
              /\ UNCHANGED <<results_json, events_json>>
              /\ pc' = "export_events"
         [] pc = "export_events" ->
              /\ export_events_to_json
              /\ UNCHANGED <<results_json, files_json>>
              /\ pc' = "idle"
    /\ last' = NoCall
    /\ UNCHANGED run_log

\* an exception leaves run_all (scheduler.job logs it): no sweep, no export
AbortRun ==
    /\ UNCHANGED <<tx, conns, io, site>>
    /\ pc \in {"monitor", "static", "download", "dynamic", "sweep"}
    /\ pc' = "idle"
    /\ last' = NoCall
    /\ UNCHANGED run_log
    /\ UNCHANGED <<db, disk, exportv, clock, run_ts, static_products,
                   dynamic_products, records, cursor, ncalls>>

----------------------------------------------------------------------------
(* json_api_server: PUT and DELETE of /api/products/<id>, /api/files/<id> *)

ApiFrame ==
    UNCHANGED <<disk, events_json, runv, run_log>>

edit_product ==
    /\ UNCHANGED <<tx, conns, io, site>>
    /\ ncalls < MaxCalls
    /\ ncalls' = ncalls + 1
    /\ clock' = clock + 1
    /\ \E product_id \in 1..(Len(products) + 1), payload \in ProductPayloads :
          /\ update_product_record(product_id, payload, clock')
          /\ LET ret == UpdateReturns(products, product_id) IN
             last' = Returned(Call("update_product_record", "api", product_id, payload, clock'),
                              ret, HttpStatus(ret))
    /\ UNCHANGED <<files, files_json>>
    /\ ApiFrame

remove_product ==
    /\ UNCHANGED <<tx, conns, io, site>>
    /\ ncalls < MaxCalls
    /\ ncalls' = ncalls + 1
    /\ clock' = clock + 1
    /\ \E product_id \in 1..(Len(products) + 1) :
          /\ deactivate_product_record(product_id, clock')
          /\ LET ret == DeactivateReturns(products, product_id) IN
             last' = Returned(Call("deactivate_product_record", "api", product_id, NoArg, clock'),
                              ret, HttpStatus(ret))
    /\ UNCHANGED <<files, files_json>>
    /\ ApiFrame

edit_file ==
    /\ UNCHANGED <<tx, conns, io, site>>
    /\ ncalls < MaxCalls
    /\ ncalls' = ncalls + 1
    /\ clock' = clock + 1
    /\ \E file_id \in 1..(Len(files) + 1), payload \in FilePayloads :
          /\ update_file_record(file_id, payload, clock')
          /\ LET ret == UpdateReturns(files, file_id) IN
             last' = Returned(Call("update_file_record", "api", file_id, payload, clock'),
                              ret, HttpStatus(ret))
    /\ UNCHANGED <<products, results_json>>
    /\ ApiFrame

remove_file ==
    /\ UNCHANGED <<tx, conns, io, site>>
    /\ ncalls < MaxCalls
    /\ ncalls' = ncalls + 1
    /\ clock' = clock + 1
    /\ \E file_id \in 1..(Len(files) + 1) :
          /\ deactivate_file_record(file_id, clock')
          /\ LET ret == DeactivateReturns(files, file_id) IN
             last' = Returned(Call("deactivate_file_record", "api", file_id, NoArg, clock'),
                              ret, HttpStatus(ret))
    /\ UNCHANGED <<products, results_json>>
    /\ ApiFrame

\* Somebody changes or deletes a file of the download directory (what
\* monitor_local_file_changes looks for).
LocalFileChanged ==
    /\ UNCHANGED <<tx, conns, io, site>>
    /\ ncalls < MaxCalls
    /\ ncalls' = ncalls + 1
    /\ \E p \in Paths, content \in Contents \cup {Missing} :
          /\ disk[p] \notin {Missing, content}
          /\ disk' = [disk EXCEPT ![p] = content]
    /\ last' = NoCall
    /\ UNCHANGED run_log
    /\ UNCHANGED <<db, exportv, clock, runv>>

----------------------------------------------------------------------------

Next ==
    \/ StartRun
    \/ MonitorSkip
    \/ MonitorLost
    \/ MonitorChanged
    \/ MonitorDone
    \/ StaticObserve
    \/ StaticSkip
    \/ StaticDone
    \/ DownloadFile
    \/ DownloadFail
    \/ DownloadDone
    \/ DynamicObserve
    \/ DynamicSkip
    \/ DynamicDone
    \/ SweepProducts
    \/ SweepFiles
    \/ SkipSweep
    \/ ExportStep
    \/ AbortRun
    \/ edit_product
    \/ remove_product
    \/ edit_file
    \/ remove_file
    \/ LocalFileChanged

Spec == Init /\ [][Next]_vars

----------------------------------------------------------------------------
(* Properties of the calls: the last call, the store before it, and what it
   appended *)

\* the last step called op
LastIs(op) == last.op = op
PreProducts == last.pre.products
PreFiles == last.pre.files
PreEvents == last.pre.events

\* the row of the observed url before the call (0: none) and now
PreProductId == IF ProductIdsByUrl(PreProducts, last.arg.url) = {} THEN 0
                ELSE CHOOSE i \in ProductIdsByUrl(PreProducts, last.arg.url) : TRUE
PreFileId == IF FileIdsByUrl(PreFiles, last.arg.url) = {} THEN 0
             ELSE CHOOSE i \in FileIdsByUrl(PreFiles, last.arg.url) : TRUE

\* the events the call appended
Appended == SubSeq(events, Len(PreEvents) + 1, Len(events))
EventsKept == Len(events) >= Len(PreEvents) /\ SubSeq(events, 1, Len(PreEvents)) = PreEvents
Event(entity_type, entity_id, event_type) ==
    [entity_type |-> entity_type, entity_id |-> entity_id, event_type |-> event_type]

\* every row but id is as before the call, and no row was added
OtherProductsKept(id) ==
    /\ Len(products) = Len(PreProducts)
    /\ \A i \in DOMAIN products : i # id => products[i] = PreProducts[i]
OtherFilesKept(id) ==
    /\ Len(files) = Len(PreFiles)
    /\ \A i \in DOMAIN files : i # id => files[i] = PreFiles[i]

ProductAttributes == {"name", "brand", "category", "image_url", "price", "currency", "page"}
FileAttributes == {"filename", "local_path", "mime_type"}
SameOn(fields, r, q) == \A f \in fields : r[f] = q[f]

----------------------------------------------------------------------------
(* C1 *)

\* C1, products: an upsert_product of a url that has no row appends exactly
\* one row with that url, the observed attributes and their fingerprint,
\* first_seen_at = last_seen_at = run_ts and is_active, and exactly one event,
\* `created`, whose entity_id is the new row's id; nothing else changes.
C1_ProductCreated ==
    (LastIs("upsert_product") /\ PreProductId = 0) =>
        LET id == Len(PreProducts) + 1 IN
        /\ Len(products) = id
        /\ SubSeq(products, 1, Len(PreProducts)) = PreProducts
        /\ products[id].id = id
        /\ products[id].url = last.arg.url
        /\ SameOn(ProductAttributes, products[id], last.arg)
        /\ products[id].data_hash = compute_product_hash(last.arg)
        /\ products[id].first_seen_at = last.ts
        /\ products[id].last_seen_at = last.ts
        /\ products[id].is_active
        /\ EventsKept
        /\ Appended = <<Event("product", id, "created")>>
        /\ files = PreFiles

\* C1, files: the same for upsert_file_record, the fingerprint being the
\* observed content hash.
C1_FileCreated ==
    (LastIs("upsert_file_record") /\ PreFileId = 0) =>
        LET id == Len(PreFiles) + 1 IN
        /\ Len(files) = id
        /\ SubSeq(files, 1, Len(PreFiles)) = PreFiles
        /\ files[id].id = id
        /\ files[id].url = last.arg.url
        /\ SameOn(FileAttributes, files[id], last.arg)
        /\ files[id].hash = last.arg.hash
        /\ files[id].first_seen_at = last.ts
        /\ files[id].last_seen_at = last.ts
        /\ files[id].is_active
        /\ EventsKept
        /\ Appended = <<Event("file", id, "created")>>
        /\ products = PreProducts

\* C1: an upsert of a Product or File whose url has no row inserts exactly one
\* row (first_seen_at = last_seen_at = run_ts, active, fingerprint of the
\* observed attributes) and appends exactly one `created` event for it; no
\* other row and no other event changes.
C1_Created == C1_ProductCreated /\ C1_FileCreated

\* a product was just inserted into a store that already held another
\* product, a file and events
C1_Witness ==
    /\ LastIs("upsert_product")
    /\ PreProductId = 0
    /\ PreProducts # <<>>
    /\ PreFiles # <<>>
    /\ Len(products) = Len(PreProducts) + 1

----------------------------------------------------------------------------
(* C2 *)

\* the call was made on a row whose stored fingerprint differs from the observed
ProductChanged ==
    /\ LastIs("upsert_product")
    /\ PreProductId # 0
    /\ PreProducts[PreProductId].data_hash # compute_product_hash(last.arg)
FileChanged ==
    /\ LastIs("upsert_file_record")
    /\ PreFileId # 0
    /\ PreFiles[PreFileId].hash # last.arg.hash

C2_ProductUpdated ==
    ProductChanged =>
        LET id == PreProductId IN
        /\ OtherProductsKept(id)
        /\ SameOn(ProductAttributes, products[id], last.arg)
        /\ products[id].data_hash = compute_product_hash(last.arg)
        /\ products[id].last_change_at = last.ts
        /\ products[id].is_active
        /\ EventsKept
        /\ Appended = <<Event("product", id, "updated")>>

C2_FileUpdated ==
    FileChanged =>
        LET id == PreFileId IN
        /\ OtherFilesKept(id)
        /\ SameOn(FileAttributes, files[id], last.arg)
        /\ files[id].hash = last.arg.hash
        /\ files[id].last_change_at = last.ts
        /\ files[id].is_active
        /\ EventsKept
        /\ Appended = <<Event("file", id, "updated")>>

\* C2: an upsert of a Product or File whose url has a row with another
\* fingerprint overwrites the attribute fields and the fingerprint with the
\* observed ones, sets last_change_at = run_ts and is_active, and appends
\* exactly one event, of type `updated`.
C2_Updated == C2_ProductUpdated /\ C2_FileUpdated

----------------------------------------------------------------------------
(* C3 *)

ProductUnchanged ==
    /\ LastIs("upsert_product")
    /\ PreProductId # 0
    /\ PreProducts[PreProductId].data_hash = compute_product_hash(last.arg)
FileUnchanged ==
    /\ LastIs("upsert_file_record")
    /\ PreFileId # 0
    /\ PreFiles[PreFileId].hash = last.arg.hash

\* C3: an upsert of an entity (Product or File) on its active row with the
\* fingerprint already stored sets last_seen_at to the run timestamp and
\* leaves every other field (attributes, fingerprint, last_change_at,
\* is_active, first_seen_at) and every other row as they were, and appends no
\* event.
C3_Idempotent ==
    /\ (ProductUnchanged /\ PreProducts[PreProductId].is_active) =>
          /\ products = [PreProducts EXCEPT ![PreProductId].last_seen_at = last.ts]
          /\ events = PreEvents
    /\ (FileUnchanged /\ PreFiles[PreFileId].is_active) =>
          /\ files = [PreFiles EXCEPT ![PreFileId].last_seen_at = last.ts]
          /\ events = PreEvents

\* a product created or changed in an earlier run (T1) was observed again,
\* unchanged, in a later run (T2 > T1)
C3_Witness ==
    /\ ProductUnchanged
    /\ PreProducts[PreProductId].is_active
    /\ PreProducts[PreProductId].last_seen_at < last.ts
    /\ products[PreProductId].last_seen_at = last.ts

----------------------------------------------------------------------------
(* C4 *)

\* C4: an upsert of an entity (Product or File) on its inactive row with the
\* fingerprint already stored sets is_active and last_change_at = run_ts (and
\* last_seen_at = run_ts), leaves the attribute fields and the fingerprint
\* unchanged and appends exactly one event, `reactivated`.
C4_Reactivated ==
    /\ (ProductUnchanged /\ ~PreProducts[PreProductId].is_active) =>
          /\ products = [PreProducts EXCEPT ![PreProductId].last_seen_at = last.ts,
                                            ![PreProductId].last_change_at = last.ts,
                                            ![PreProductId].is_active = TRUE]
          /\ EventsKept
          /\ Appended = <<Event("product", PreProductId, "reactivated")>>
    /\ (FileUnchanged /\ ~PreFiles[PreFileId].is_active) =>
          /\ files = [PreFiles EXCEPT ![PreFileId].last_seen_at = last.ts,
                                      ![PreFileId].last_change_at = last.ts,
                                      ![PreFileId].is_active = TRUE]
          /\ EventsKept
          /\ Appended = <<Event("file", PreFileId, "reactivated")>>

\* a product that had been deactivated (it has a `deleted` event) was observed
\* again, unchanged, by a later pass of the static scraper
C4_Witness ==
    /\ ProductUnchanged
    /\ ~PreProducts[PreProductId].is_active
    /\ products[PreProductId].is_active
    /\ \E k \in DOMAIN PreEvents :
          PreEvents[k] = Event("product", PreProductId, "deleted")
    /\ last.caller = "static"
    /\ "mark_missing_products" \notin run_log

----------------------------------------------------------------------------
(* C5 *)

\* the rows a sweep at ts has to deactivate
Stale(tbl, ts) == {i \in DOMAIN tbl : tbl[i].is_active /\ tbl[i].last_seen_at < ts}

\* tbl is pre with exactly the rows of ids deactivated at ts
SweptTo(tbl, pre, ids, ts) ==
    /\ Len(tbl) = Len(pre)
    /\ \A i \in DOMAIN pre :
          tbl[i] = IF i \in ids
                   THEN [pre[i] EXCEPT !.is_active = FALSE, !.last_change_at = ts]
                   ELSE pre[i]

\* the appended events are one `deleted` event for each of ids
DeletedOnceEach(entity_type, ids) ==
    /\ EventsKept
    /\ Len(Appended) = Cardinality(ids)
    /\ \A i \in ids : \E k \in DOMAIN Appended :
          Appended[k] = Event(entity_type, i, "deleted")

\* C5: mark_missing_products(run_ts) / mark_missing_files(run_ts) deactivate
\* exactly the rows that are active with last_seen_at < run_ts: each gets
\* is_active = FALSE, last_change_at = run_ts and exactly one `deleted` event;
\* rows seen at run_ts and rows already inactive are unchanged and get no
\* event.
C5_AbsenceSweep ==
    /\ LastIs("mark_missing_products") =>
          /\ SweptTo(products, PreProducts, Stale(PreProducts, last.ts), last.ts)
          /\ DeletedOnceEach("product", Stale(PreProducts, last.ts))
          /\ files = PreFiles
    /\ LastIs("mark_missing_files") =>
          /\ SweptTo(files, PreFiles, Stale(PreFiles, last.ts), last.ts)
          /\ DeletedOnceEach("file", Stale(PreFiles, last.ts))
          /\ products = PreProducts

\* products A and B were active, the run observed only A, and the sweep has
\* deactivated B and kept A
C5_Witness ==
    /\ LastIs("mark_missing_products")
    /\ \E a, b \in DOMAIN PreProducts :
          /\ PreProducts[a].is_active /\ PreProducts[a].last_seen_at = last.ts
          /\ PreProducts[b].is_active /\ PreProducts[b].last_seen_at < last.ts
          /\ products[a].is_active
          /\ ~products[b].is_active
          /\ products[b].last_change_at = last.ts

----------------------------------------------------------------------------
(* C6 *)

\* the scrapers of the current (or last) run of run_all are over, and the run
\* has observed no product and no file
ObservedNothing ==
    /\ pc \in {"sweep", "export_products", "export_files", "export_events", "idle"}
    /\ run_log \cap {"upsert_product", "upsert_file_record"} = {}

SweeperNotTriggered == run_log \cap {"mark_missing_products", "mark_missing_files"} = {}

\* C6: a run of run_all that observes nothing does not trigger the Sweeper,
\* and the run deactivates no entity: no is_active goes from TRUE to FALSE
\* and no `deleted` event is appended by it.
C6_ZeroObservation ==
    ObservedNothing =>
        /\ SweeperNotTriggered
        /\ "product deactivated" \notin run_log
        /\ "file deactivated" \notin run_log

\* C6, what the code keeps: such a run does not trigger the Sweeper and
\* deactivates no product; a file it deactivates is one the file monitor found
\* without its local artifact.
C6_ZeroObservationSweeper ==
    ObservedNothing =>
        /\ SweeperNotTriggered
        /\ "product deactivated" \notin run_log
        /\ "file deactivated" \in run_log => "deactivate_file_record" \in run_log

\* a run over a store with active rows observed nothing, skipped the sweep and
\* went on to export
C6_Witness ==
    /\ pc = "export_products"
    /\ ObservedNothing
    /\ Active(products) # {}
    /\ Active(files) # {}
    /\ \E i \in DOMAIN products : products[i].is_active /\ products[i].last_seen_at < run_ts

----------------------------------------------------------------------------
(* C10 *)

\* row with the allowed fields the payload supplies
Applied(row, tbl_row, payload, allowed) ==
    /\ \A f \in allowed \cap DOMAIN row :
          tbl_row[f] = IF f \in DOMAIN payload THEN payload[f] ELSE row[f]
    /\ \A f \in DOMAIN row \ (allowed \cup {"last_change_at", "data_hash", "hash"}) :
          tbl_row[f] = row[f]

ProductEdited == LastIs("update_product_record") /\ last.id \in DOMAIN PreProducts
FileEdited == LastIs("update_file_record") /\ last.id \in DOMAIN PreFiles

C10_ProductEdit ==
    ProductEdited =>
        /\ OtherProductsKept(last.id)
        /\ Applied(PreProducts[last.id], products[last.id], last.arg, ProductAllowed)
        /\ products[last.id].data_hash = compute_product_hash(products[last.id])
        /\ products[last.id].last_change_at = last.ts
        /\ EventsKept
        /\ Appended = <<Event("product", last.id, "updated")>>
        /\ \E k \in DOMAIN results_json :
              results_json[k] = ProductSnapshotRow(products[last.id])

\* the file part without the fingerprint
C10_FileEditApplied ==
    FileEdited =>
        /\ OtherFilesKept(last.id)
        /\ Applied(PreFiles[last.id], files[last.id], last.arg, FileAllowed)
        /\ files[last.id].last_change_at = last.ts
        /\ EventsKept
        /\ Appended = <<Event("file", last.id, "updated")>>
        /\ \E k \in DOMAIN files_json :
              files_json[k] = FileSnapshotRow(files[last.id])

\* the fingerprint of an edited file is that of the content at its local_path
C10_FileFingerprint ==
    (FileEdited /\ disk[files[last.id].local_path] # Missing) =>
        files[last.id].hash = compute_file_hash_value(disk[files[last.id].local_path])

\* C10: for an existing id, update_product_record / update_file_record
\* applies the supplied subset of mutable fields, recomputes the fingerprint
\* from the merged attributes, sets last_change_at, appends exactly one
\* `updated` event for the entity and re-exports the snapshot, which shows the
\* edit when the call returns.
C10_ManualEdit == C10_ProductEdit /\ C10_FileEditApplied /\ C10_FileFingerprint

\* C10, what the code keeps: all of it for products; for files all but the
\* fingerprint, which update_file_record leaves as stored.
C10_ManualEditKept ==
    /\ C10_ProductEdit
    /\ C10_FileEditApplied
    /\ FileEdited => files[last.id].hash = PreFiles[last.id].hash

\* a file was edited by hand and then a product's price was
C10_Witness ==
    /\ ProductEdited
    /\ "price" \in DOMAIN last.arg
    /\ products[last.id].price # PreProducts[last.id].price
    /\ products[last.id].data_hash # PreProducts[last.id].data_hash
    /\ \E k \in DOMAIN events, i \in DOMAIN files :
          events[k] = Event("file", i, "updated")

----------------------------------------------------------------------------
(* Change detection: upsert_product over a wide range of observations *)

\* Texts a card may carry. Titles and brand texts are free text of the page:
\* they may hold the "|" of the canonical string, or spell "None".
DetectNames == {"Laptop A", "Laptop A|ASUS"}
DetectBrands == {None, "None", "X", "ASUS|X"}
SeparatorTexts == {"Laptop A|ASUS", "ASUS|X"}
NoneText == "None"

\* What the scrapers may hand to upsert_product for CatalogUrls[1]
Observations ==
    [url : {CatalogUrls[1]},
     name : DetectNames,
     brand : DetectBrands,
     category : {StaticCategory, DynamicCategory},
     image_url : {None, "http://i/1.jpg"},
     price : Prices(1),
     currency : {"CRC", "USD"},
     page : {1, 2}]

\* The store after a run at time 1 created the product, and, for an inactive
\* row, a run at time 2 swept it.
InitDetect ==
    /\ \E stored \in Observations, swept \in BOOLEAN :
          LET created == UpsertProductEffect(<<>>, <<>>, stored, 1, 0)
              store == IF swept
                       THEN MarkMissingProductsEffect(created.products, created.events, 2)
                       ELSE created
          IN /\ products = store.products
             /\ events = store.events
    /\ files = <<>>
    /\ disk = [p \in Paths |-> Missing]
    /\ results_json = <<>>
    /\ files_json = <<>>
    /\ events_json = <<>>
    /\ clock = 2
    /\ pc = "idle"
    /\ run_ts = NoTime
    /\ static_products = FALSE
    /\ dynamic_products = FALSE
    /\ records = {}
    /\ cursor = 0
    /\ ncalls = 0
    /\ last = NoCall
    /\ run_log = {}
    /\ tx = NoTx
    /\ conns = NoConns
    /\ io = NoIo
    /\ site = NoSite

\* The next run observes the product again
Reobserve ==
    /\ UNCHANGED <<tx, conns, io, site>>
    /\ last = NoCall
    /\ clock' = clock + 1
    /\ \E product \in Observations :
          /\ upsert_product(product, clock')
          /\ last' = Call("upsert_product", "scraper", 0, product, clock')
    /\ UNCHANGED <<files, disk, exportv, runv, ncalls, run_log>>

NextDetect == Reobserve

SpecDetect == InitDetect /\ [][NextDetect]_vars

----------------------------------------------------------------------------
(* C8 *)

Fingerprinted == {"name", "brand", "category", "price", "image_url"}
NonFingerprinted == {"currency", "page"}

\* the product was observed again: row is what was stored
Reobserved == LastIs("upsert_product") /\ PreProductId # 0
StoredRow == PreProducts[PreProductId]
DiffersOn(fields) == \E f \in fields : last.arg[f] # StoredRow[f]

UpdatedOnce ==
    /\ EventsKept
    /\ Appended = <<Event("product", PreProductId, "updated")>>
    /\ products[PreProductId].data_hash # StoredRow.data_hash

NotUpdated ==
    /\ EventsKept
    /\ \A k \in DOMAIN Appended : Appended[k].event_type # "updated"
    /\ products[PreProductId].data_hash = StoredRow.data_hash

PlainTexts(r) == \A f \in Fingerprinted : r[f] \notin SeparatorTexts \cup {NoneText}

----------------------------------------------------------------------------
(* The lifecycle scenario: scheduled runs T1, T2, ... of run_all, the static
   scraper only, nothing else touching the store *)

\* What the category shows of CatalogUrls[1] in the n-th run: price 500000 in
\* T1, 550000 from T2 on, and no card in T3.
ScenarioPrice(n) == IF n = 1 THEN "500000.0" ELSE "550000.0"
ScenarioAbsent(n) == n = 3

LifecycleObserve ==
    /\ StaticObserve
    /\ cursor = 1 => (~ScenarioAbsent(ncalls) /\ last'.arg.price = ScenarioPrice(ncalls))

\* CatalogUrls[1] is skipped in T3 only; T3 observes CatalogUrls[2], so that
\* its sweep runs
LifecycleSkip ==
    /\ StaticSkip
    /\ IF ScenarioAbsent(ncalls) THEN cursor # 2 ELSE cursor # 1

\* ENABLE_DYNAMIC_SCRAPER is not "1"
LifecycleDownloadDone ==
    /\ DownloadDone
    /\ pc' = "sweep"

NextLifecycle ==
    \/ StartRunWithin(LifecycleRuns)
    \/ MonitorSkip
    \/ MonitorDone
    \/ LifecycleObserve
    \/ LifecycleSkip
    \/ StaticDone
    \/ DownloadFile
    \/ DownloadFail
    \/ LifecycleDownloadDone
    \/ SweepProducts
    \/ SweepFiles
    \/ ExportStep

SpecLifecycle == Init /\ [][NextLifecycle]_vars

----------------------------------------------------------------------------
(* C7 *)

\* the row of the scenario's product, http://x/1
ScenarioId == CHOOSE i \in ProductIdsByUrl(products, CatalogUrls[1]) : TRUE
ScenarioProduct == products[ScenarioId]

\* the event types of the Event Log restricted to the scenario's product
ScenarioEvents ==
    LET own == SelectSeq(events, LAMBDA e : e.entity_type = "product"
                                            /\ e.entity_id = ScenarioId)
    IN [k \in DOMAIN own |-> own[k].event_type]

\* the n-th run is over
AfterRun(n) == ncalls = n /\ pc = "idle"

\* C7: a product observed new in run T1, with a changed price in T2, not
\* observed in T3 (whose sweep runs, another product being observed) and
\* observed unchanged in T4 ends active with the events created, updated,
\* deleted, reactivated, in that order; last_change_at = T2 after T2 and
\* is_active = FALSE after T3.
C7_Lifecycle ==
    /\ AfterRun(1) =>
          /\ ScenarioProduct.is_active
          /\ ScenarioEvents = <<"created">>
    /\ AfterRun(2) =>
          /\ ScenarioProduct.price = ScenarioPrice(2)
          /\ ScenarioProduct.last_change_at = run_ts
          /\ ScenarioEvents = <<"created", "updated">>
    /\ AfterRun(3) =>
          /\ ~ScenarioProduct.is_active
          /\ ScenarioProduct.last_change_at = run_ts
          /\ ScenarioEvents = <<"created", "updated", "deleted">>
    /\ (ncalls >= 4 /\ pc = "idle") =>
          /\ ScenarioProduct.is_active
          /\ ScenarioProduct.price = ScenarioPrice(2)
          /\ ScenarioEvents = <<"created", "updated", "deleted", "reactivated">>

\* T4 is over: the product is active again, four events after its creation
\* in T1
C7_Witness ==
    /\ AfterRun(4)
    /\ ScenarioProduct.is_active
    /\ ScenarioProduct.first_seen_at = 1
    /\ ScenarioProduct.last_seen_at = 4
    /\ Len(ScenarioEvents) = 4

----------------------------------------------------------------------------
(* The Reconciler and the Sweeper statement by statement: every call runs
   its SQL statements on one connection of get_conn and ends with
   conn.commit(); an exception or a crash before that closes the connection
   uncommitted. Other connections read the store <<products, files, events>>;
   tx holds what the open transaction has written. *)

Stmt(do, kind, id, event_type) ==
    [do |-> do, kind |-> kind, id |-> id, event_type |-> event_type]

\* The statements of upsert_product / upsert_file_record after its SELECT
\* returned row (0: none), changed and active being what the code reads of it
PlanUpsert(kind, row, changed, active) ==
    IF row = 0
    THEN <<Stmt("insert", kind, 0, None), Stmt("event", kind, 0, "created")>>
    ELSE <<Stmt("touch", kind, row, None)>>
         \o (IF changed
             THEN <<Stmt("overwrite", kind, row, None),
                    Stmt("event", kind, row,
                         IF kind = "file" THEN FileChangedEvent ELSE "updated")>>
             ELSE IF ~active
             THEN <<Stmt("reactivate", kind, row, None),
                    Stmt("event", kind, row, "reactivated")>>
             ELSE <<>>)

RECURSIVE PlanSweep(_, _, _)
\* The statements of mark_missing_products / mark_missing_files for the rows
\* its SELECT returned, ids among 1..n
PlanSweep(kind, ids, n) ==
    IF n = 0 THEN <<>>
    ELSE PlanSweep(kind, ids, n - 1)
         \o (IF n \notin ids THEN <<>>
             ELSE <<Stmt("deactivate", kind, n, None),
                    Stmt("event", kind, n, "deleted")>>
                  \o (IF kind = "file" THEN <<Stmt("remove", kind, n, None)>> ELSE <<>>))

\* The uncommitted store w after statement st of a call with argument arg
\* and timestamp ts
Execute(st, w, arg, ts) ==
    CASE st.do = "insert" ->
            IF st.kind = "product"
            THEN [w EXCEPT !.products = InsertProduct(w.products, arg, ts)]
            ELSE [w EXCEPT !.files = InsertFile(w.files, arg, ts)]
      [] st.do = "touch" ->
            IF st.kind = "product"
            THEN [w EXCEPT !.products = TouchProduct(w.products, st.id, ts)]
            ELSE [w EXCEPT !.files = TouchFile(w.files, st.id, ts)]
      [] st.do = "overwrite" ->
            IF st.kind = "product"
            THEN [w EXCEPT !.products = OverwriteProduct(w.products, st.id, arg, ts)]
            ELSE [w EXCEPT !.files = OverwriteFile(w.files, st.id, arg, ts)]
      [] st.do = "reactivate" ->
            IF st.kind = "product"
            THEN [w EXCEPT !.products = ReactivateProduct(w.products, st.id, ts)]
            ELSE [w EXCEPT !.files = ReactivateFile(w.files, st.id, ts)]
      [] st.do = "deactivate" ->
            IF st.kind = "product"
            THEN [w EXCEPT !.products[st.id].is_active = FALSE,
                           !.products[st.id].last_change_at = ts]
            ELSE [w EXCEPT !.files[st.id].is_active = FALSE,
                           !.files[st.id].last_change_at = ts]
      [] st.do = "event" ->
            \* the id of a created row is the one its INSERT returned
            LET id == IF st.id # 0 THEN st.id
                      ELSE IF st.kind = "product" THEN Len(w.products) ELSE Len(w.files)
            IN [w EXCEPT !.events = add_event(w.events, st.kind, id, st.event_type)]
      [] OTHER -> w

\* faulty variant: a connection in autocommit mode
AutocommitStore(committed, uncommitted) == uncommitted

\* What other connections read while a transaction is open: psycopg2 begins
\* a transaction with the first statement, and nothing of it shows before
\* conn.commit()
VisibleStore(committed, uncommitted) == committed

TxFrame == UNCHANGED <<exportv, runv, run_log, conns, io, site>>

\* get_conn() at time ts for a call whose statements are todo
Begin(op, arg, ts, todo) ==
    /\ tx.state # "open"
    /\ ncalls < TxCalls
    /\ ncalls' = ncalls + 1
    /\ ts > NoTime
    /\ clock' = ts
    /\ tx' = [state |-> "open", todo |-> todo,
              products |-> products, files |-> files, events |-> events]
    /\ last' = Call(op, "run_all", 0, arg, ts)
    /\ UNCHANGED db
    /\ TxFrame

\* a run's timestamp: that of the run of the call before, or a later one
RunTimestamps == {clock, clock + 1}

TxUpsertProduct ==
    \E ts \in RunTimestamps, i \in DOMAIN CatalogUrls :
    \E price \in Prices(i) :
        LET product == Card(i, StaticCategory, price)
            ids == ProductIdsByUrl(products, product.url)
        IN \E row \in IF ids = {} THEN {0} ELSE ids :
              /\ Begin("upsert_product", product, ts,
                       PlanUpsert("product", row,
                                  row # 0 /\ products[row].data_hash # compute_product_hash(product),
                                  row # 0 /\ products[row].is_active))
              /\ UNCHANGED disk

\* the downloader has written the content to local_path
TxUpsertFile ==
    \E ts \in RunTimestamps, i \in DOMAIN STATIC_FILE_URLS, content \in Contents :
        LET file_info == [url |-> STATIC_FILE_URLS[i],
                          filename |-> FileNames[i],
                          local_path |-> LocalPath(i),
                          mime_type |-> MimeType,
                          hash |-> compute_file_hash_value(content)]
            ids == FileIdsByUrl(files, file_info.url)
        IN \E row \in IF ids = {} THEN {0} ELSE ids :
              /\ Begin("upsert_file_record", file_info, ts,
                       PlanUpsert("file", row,
                                  row # 0 /\ files[row].hash # file_info.hash,
                                  row # 0 /\ files[row].is_active))
              /\ disk' = [disk EXCEPT ![LocalPath(i)] = content]

TxSweepProducts ==
    \E ts \in RunTimestamps :
        /\ Begin("mark_missing_products", NoArg, ts,
                 PlanSweep("product", StaleProducts(products, ts), Len(products)))
        /\ UNCHANGED disk

TxSweepFiles ==
    \E ts \in RunTimestamps :
        /\ Begin("mark_missing_files", NoArg, ts,
                 PlanSweep("file", StaleFiles(files, ts), Len(files)))
        /\ UNCHANGED disk

\* cur.execute of the next statement; os.remove for "remove", which may raise
\* the OSError the code logs
TxStatement ==
    /\ tx.state = "open"
    /\ tx.todo # <<>>
    /\ LET st == Head(tx.todo)
           w == Execute(st, [products |-> tx.products, files |-> tx.files,
                             events |-> tx.events], last.arg, last.ts)
       IN /\ tx' = [state |-> "open", todo |-> Tail(tx.todo),
                    products |-> w.products, files |-> w.files, events |-> w.events]
          /\ products' = VisibleStore(products, w.products)
          /\ files' = VisibleStore(files, w.files)
          /\ events' = VisibleStore(events, w.events)
          /\ \E removed \in BOOLEAN :
                disk' = IF st.do = "remove" /\ removed
                        THEN RemoveLocal(disk, {tx.files[st.id].local_path})
                        ELSE disk
    /\ UNCHANGED <<clock, ncalls, last>>
    /\ TxFrame

\* conn.commit()
TxCommit ==
    /\ tx.state = "open"
    /\ tx.todo = <<>>
    /\ products' = tx.products
    /\ files' = tx.files
    /\ events' = tx.events
    /\ tx' = [tx EXCEPT !.state = "committed"]
    /\ UNCHANGED <<disk, clock, ncalls, last>>
    /\ TxFrame

\* A storage failure raises out of the with block (get_conn closes the
\* connection), or the process dies: the transaction is rolled back.
TxAbort ==
    /\ tx.state = "open"
    /\ tx' = [tx EXCEPT !.state = "aborted"]
    /\ UNCHANGED <<db, disk, clock, ncalls, last>>
    /\ TxFrame

NextTx ==
    \/ TxUpsertProduct
    \/ TxUpsertFile
    \/ TxSweepProducts
    \/ TxSweepFiles
    \/ TxStatement
    \/ TxCommit
    \/ TxAbort

SpecTx == Init /\ [][NextTx]_vars

----------------------------------------------------------------------------
(* C9 *)

\* the store another connection reads
Store == [products |-> products, files |-> files, events |-> events]

\* last.pre with all the row changes and all the events of the last call
AllOfCall ==
    CASE last.op = "upsert_product" ->
            LET eff == UpsertProductEffect(PreProducts, PreEvents, last.arg, last.ts,
                                           PreProductId)
            IN [products |-> eff.products, files |-> PreFiles, events |-> eff.events]
      [] last.op = "upsert_file_record" ->
            LET eff == UpsertFileEffect(PreFiles, PreEvents, last.arg, last.ts, PreFileId)
            IN [products |-> PreProducts, files |-> eff.files, events |-> eff.events]
      [] last.op = "mark_missing_products" ->
            LET eff == MarkMissingProductsEffect(PreProducts, PreEvents, last.ts)
            IN [products |-> eff.products, files |-> PreFiles, events |-> eff.events]
      [] last.op = "mark_missing_files" ->
            LET eff == MarkMissingFilesEffect(PreFiles, PreEvents, last.ts)
            IN [products |-> PreProducts, files |-> eff.files, events |-> eff.events]

\* the rows the store shows deactivated since the call began
Deactivated(tbl, pre) == {i \in DOMAIN pre : pre[i].is_active /\ ~tbl[i].is_active}

\* no half of a sweep: none or all of the stale rows are deactivated, with as
\* many events
WholeSweep(tbl, pre, entity_type) ==
    /\ Len(tbl) = Len(pre)
    /\ \/ Deactivated(tbl, pre) = {} /\ events = PreEvents
       \/ Deactivated(tbl, pre) = Stale(pre, last.ts)
          /\ DeletedOnceEach(entity_type, Stale(pre, last.ts))

\* no row change of an upsert without its event, no event without the change:
\* touched is the table with at most last_seen_at set
WholeUpsert(tbl, pre, touched) ==
    /\ EventsKept
    /\ Len(Appended) <= 1
    /\ Appended = <<>> <=> tbl \in {pre, touched}

\* C9: every Reconciler and every Sweeper call is all-or-nothing: whatever
\* another reader sees, also after a storage failure or a crash inside the
\* call, holds all of the call's row changes and events or none of them;
\* never a row changed without its event, an event without its row change,
\* or a sweep of only some of the stale rows.
C9_Atomic ==
    last.op # "none" =>
        /\ Store = IF tx.state = "committed" THEN AllOfCall ELSE last.pre
        /\ last.op = "mark_missing_products" => WholeSweep(products, PreProducts, "product")
        /\ last.op = "mark_missing_files" => WholeSweep(files, PreFiles, "file")
        /\ last.op = "upsert_product" =>
              WholeUpsert(products, PreProducts,
                          IF PreProductId = 0 THEN PreProducts
                          ELSE [PreProducts EXCEPT ![PreProductId].last_seen_at = last.ts])
        /\ last.op = "upsert_file_record" =>
              WholeUpsert(files, PreFiles,
                          IF PreFileId = 0 THEN PreFiles
                          ELSE [PreFiles EXCEPT ![PreFileId].last_seen_at = last.ts])

\* a sweep of two stale products failed after some of its statements, and
\* the store shows none of them
C9_Witness ==
    /\ tx.state = "aborted"
    /\ last.op = "mark_missing_products"
    /\ Cardinality(Stale(PreProducts, last.ts)) = 2
    /\ tx.todo # <<>>
    /\ Deactivated(tx.products, PreProducts) # {}
    /\ Deactivated(tx.products, PreProducts) # Stale(PreProducts, last.ts)
    /\ products = PreProducts
    /\ events = PreEvents

-----------------------------------------------------------------------------
(* C11 *)

\* C11, products: deactivate_product_record of an id that has a row leaves that
\* row inactive and every other row as it was, appends exactly one event,
\* `deleted` for that id, writes the products snapshot of the new store and
\* returns True (the handler answers 200); the files are not touched.
C11_ProductDeactivated ==
    (LastIs("deactivate_product_record") /\ last.id \in DOMAIN PreProducts) =>
        /\ ~products[last.id].is_active
        /\ SameOn(ProductAttributes \cup {"id", "url", "data_hash", "first_seen_at",
                                          "last_seen_at"},
                  products[last.id], PreProducts[last.id])
        /\ OtherProductsKept(last.id)
        /\ files = PreFiles
        /\ EventsKept
        /\ Appended = <<Event("product", last.id, "deleted")>>
        /\ results_json = ExportProducts(products)
        /\ last.ret = "True"
        /\ last.caller = "api" => last.status = 200

\* C11, files: the same for deactivate_file_record, called by the handler or
\* by the monitor of the local files.
C11_FileDeactivated ==
    (LastIs("deactivate_file_record") /\ last.id \in DOMAIN PreFiles) =>
        /\ ~files[last.id].is_active
        /\ SameOn(FileAttributes \cup {"id", "url", "hash", "first_seen_at",
                                       "last_seen_at"},
                  files[last.id], PreFiles[last.id])
        /\ OtherFilesKept(last.id)
        /\ products = PreProducts
        /\ EventsKept
        /\ Appended = <<Event("file", last.id, "deleted")>>
        /\ files_json = ExportFiles(files)
        /\ last.ret = "True"
        /\ last.caller = "api" => last.status = 200

\* C11: for an id that has a row, deactivate_product_record and
\* deactivate_file_record set is_active = false on that entity only, append
\* exactly one `deleted` event, re-export the snapshot and return success; no
\* field of any other entity changes.
C11_DeactivateById == C11_ProductDeactivated /\ C11_FileDeactivated

\* a DELETE of an active product while another product stays active
C11_Witness ==
    /\ LastIs("deactivate_product_record")
    /\ last.caller = "api"
    /\ last.id \in DOMAIN PreProducts
    /\ PreProducts[last.id].is_active
    /\ \E i \in DOMAIN products : i # last.id /\ products[i].is_active
    /\ last.status = 200

-----------------------------------------------------------------------------
(* C12 *)

\* the step is a manual edit or a deactivate-by-id of an id that has no row
NotFoundStep ==
    \/ /\ last'.op \in {"update_product_record", "deactivate_product_record"}
       /\ last'.id \notin DOMAIN products
    \/ /\ last'.op \in {"update_file_record", "deactivate_file_record"}
       /\ last'.id \notin DOMAIN files

\* C12: a manual edit or a deactivate-by-id with an id that has no row returns
\* None, respectively False (answered with 404), and changes neither the
\* store, nor the event log, nor any exported snapshot: nothing is exported.
C12_NotFound ==
    [][NotFoundStep =>
          /\ UNCHANGED <<products, files, events>>
          /\ UNCHANGED <<results_json, files_json, events_json>>
          /\ last'.ret = IF last'.op \in {"update_product_record", "update_file_record"}
                         THEN None ELSE "False"
          /\ last'.status = 404]_vars

\* a PUT of an id without row while results.json is behind the store (a run
\* has written rows and not yet exported them)
C12_Witness ==
    /\ LastIs("update_product_record")
    /\ last.id \notin DOMAIN PreProducts
    /\ last.ret = None
    /\ last.status = 404
    /\ products # <<>>
    /\ results_json # ExportProducts(products)

-----------------------------------------------------------------------------
(* upsert_product and upsert_file_record on any dict a caller may pass: with
   the key url, with url None, and without the key.  The tables' definition
   is no part of the program's Python code: whether the url column accepts
   NULL is open, and an INSERT of a NULL url is either accepted or raises
   IntegrityError. *)

InputCalls == 3

NullUrl(d) == [d EXCEPT !.url = None]
NoUrl(d) == [f \in DOMAIN d \ {"url"} |-> d[f]]

InputProducts ==
    LET cards == {Card(i, StaticCategory, price) :
                      i \in {1}, price \in Prices(1)} \cup
                 {Card(2, StaticCategory, price) : price \in Prices(2)}
    IN  cards \cup {NullUrl(c) : c \in cards} \cup {NoUrl(c) : c \in cards}

InputFiles ==
    LET infos == {[url |-> STATIC_FILE_URLS[1], filename |-> FileNames[1],
                   local_path |-> LocalPath(1), mime_type |-> MimeType,
                   hash |-> compute_file_hash_value(content)] : content \in Contents}
    IN  infos \cup {NullUrl(d) : d \in infos} \cup {NoUrl(d) : d \in infos}

InputFrame ==
    /\ ncalls < InputCalls
    /\ ncalls' = ncalls + 1
    /\ clock' = clock + 1
    /\ UNCHANGED <<disk, exportv, runv, run_log, tx, conns, io, site>>

\* upsert_product(product, now): product["url"] raises KeyError before any
\* statement; a None url finds no row and is INSERTed
InputUpsertProduct ==
    /\ InputFrame
    /\ UNCHANGED files
    /\ \E product \in InputProducts :
          LET call == Call("upsert_product", "input", 0, product, clock') IN
          IF "url" \notin DOMAIN product
          THEN /\ UNCHANGED <<products, events>>
               /\ last' = Returned(call, "KeyError", 0)
          ELSE IF product.url = None
          THEN \E accepted \in BOOLEAN :
                  IF accepted
                  THEN /\ upsert_product(product, clock')
                       /\ last' = Returned(call, None, 0)
                  ELSE /\ UNCHANGED <<products, events>>
                       /\ last' = Returned(call, "IntegrityError", 0)
          ELSE /\ upsert_product(product, clock')
               /\ last' = Returned(call, None, 0)

\* upsert_file_record(file_info, now): the same with file_info["url"]
InputUpsertFile ==
    /\ InputFrame
    /\ UNCHANGED products
    /\ \E file_info \in InputFiles :
          LET call == Call("upsert_file_record", "input", 0, file_info, clock') IN
          IF "url" \notin DOMAIN file_info
          THEN /\ UNCHANGED <<files, events>>
               /\ last' = Returned(call, "KeyError", 0)
          ELSE IF file_info.url = None
          THEN \E accepted \in BOOLEAN :
                  IF accepted
                  THEN /\ upsert_file_record(file_info, clock')
                       /\ last' = Returned(call, None, 0)
                  ELSE /\ UNCHANGED <<files, events>>
                       /\ last' = Returned(call, "IntegrityError", 0)
          ELSE /\ upsert_file_record(file_info, clock')
               /\ last' = Returned(call, None, 0)

NextInput ==
    \/ InputUpsertProduct
    \/ InputUpsertFile

SpecInput == Init /\ [][NextInput]_vars

-----------------------------------------------------------------------------
(* C13 *)

IsUpsert == LastIs("upsert_product") \/ LastIs("upsert_file_record")
UrlMissing == "url" \notin DOMAIN last.arg
UrlNull == "url" \in DOMAIN last.arg /\ last.arg.url = None
Raised == last.ret \in {"KeyError", "IntegrityError"}
StoreKept == products = PreProducts /\ files = PreFiles /\ events = PreEvents

\* C13: an upsert_product / upsert_file_record whose input has no url, or a
\* null url, fails, and no row is inserted or updated and no event appended.
C13_Rejected ==
    (IsUpsert /\ (UrlMissing \/ UrlNull)) => (Raised /\ StoreKept)

\* C13, what holds: an input without the key url fails with KeyError and
\* leaves rows and events as they were; an input with a null url updates no
\* stored row, and when it fails it leaves rows and events as they were.
C13_MissingRejected ==
    /\ (IsUpsert /\ UrlMissing) => (last.ret = "KeyError" /\ StoreKept)
    /\ (IsUpsert /\ UrlNull) =>
          /\ SubSeq(products, 1, Len(PreProducts)) = PreProducts
          /\ SubSeq(files, 1, Len(PreFiles)) = PreFiles
          /\ Raised => StoreKept

\* an upsert_product without the key url on a store that has a row
C13_Witness ==
    /\ LastIs("upsert_product")
    /\ UrlMissing
    /\ last.ret = "KeyError"
    /\ PreProducts # <<>>

-----------------------------------------------------------------------------
(* C14 *)

\* every row of old is in new, under its id and with its url
RowsKept(old, new) ==
    /\ Len(new) >= Len(old)
    /\ \A i \in DOMAIN old : new[i].id = old[i].id /\ new[i].url = old[i].url

\* C14: no step of any operation (reconcile, sweep, monitor, manual edit,
\* deactivate-by-id, export) removes a row of products or files or changes its
\* url: a logical key that is in the store is in every later state.
C14_NoPhysicalDeletion ==
    [][RowsKept(products, products') /\ RowsKept(files, files')]_vars

\* a product that was deactivated (by a sweep or by id), that a later
\* observation reactivated, and that is in the store, active
C14_Witness ==
    \E i \in DOMAIN products :
        /\ products[i].is_active
        /\ \E m, n \in DOMAIN events :
              /\ m < n
              /\ events[m] = Event("product", i, "deleted")
              /\ events[n] = Event("product", i, "reactivated")

-----------------------------------------------------------------------------
(* Overlapping runs: upsert_product calls on two connections.  A call is two
   steps, its SELECT and then its writes with their commit: under READ
   COMMITTED the writes of a connection are invisible to the other until the
   commit, and an INSERT or UPDATE that meets an uncommitted write of the
   same key or row waits for that commit, so the statements from the first
   write to the commit act as one step.
   The tables' definition is no part of the program's Python code: whether
   the url column has a unique constraint is open, and fixed for a behaviour.
   Where it has, an INSERT of a url that a committed row holds raises
   UniqueViolation. *)

ConcCalls == 3

UniqueViolation(prods, url) ==
    /\ conns.url_unique
    /\ \E i \in DOMAIN prods : prods[i].url = url

ConcProducts ==
    {Card(1, StaticCategory, price) : price \in Prices(1)} \cup
    {Card(2, StaticCategory, price) : price \in Prices(2)}

\* What cur.fetchone() returns for SELECT id, data_hash, is_active
Selected(prods, url) ==
    IF ProductIdsByUrl(prods, url) = {}
    THEN {[id |-> 0]}
    ELSE {[id |-> i, data_hash |-> prods[i].data_hash, is_active |-> prods[i].is_active] :
              i \in ProductIdsByUrl(prods, url)}

ConcFrame == UNCHANGED <<files, disk, exportv, runv, run_log, tx, io, site>>

\* upsert_product(product, run_ts) on connection c, up to row = cur.fetchone()
ConcSelect(c) ==
    /\ conns.call[c].state = "none"
    /\ ncalls < ConcCalls
    /\ ncalls' = ncalls + 1
    /\ clock' = clock + 1
    /\ \E product \in ConcProducts :
          \E seen \in Selected(products, product.url) :
             conns' = [conns EXCEPT !.call[c] =
                          [state |-> "selected", arg |-> product, ts |-> clock',
                           seen |-> seen]]
    /\ last' = NoCall
    /\ UNCHANGED <<products, events>>
    /\ ConcFrame

\* the rest of the call: the branch the fetched row selects, and conn.commit()
ConcWrite(c) ==
    /\ conns.call[c].state = "selected"
    /\ LET product == conns.call[c].arg
           ts == conns.call[c].ts
           seen == conns.call[c].seen
           call == Call("upsert_product", "overlapping run", seen.id, product, ts)
       IN  IF seen.id = 0
           THEN IF UniqueViolation(products, product.url)
                THEN /\ UNCHANGED <<products, events>>
                     /\ last' = Returned(call, "UniqueViolation", 0)
                ELSE /\ products' = InsertProduct(products, product, ts)
                     /\ events' = add_event(events, "product", Len(products) + 1,
                                            "created")
                     /\ last' = Returned(call, None, 0)
           ELSE /\ last' = Returned(call, None, 0)
                /\ IF seen.data_hash # compute_product_hash(product)
                   THEN /\ products' = OverwriteProduct(
                                           TouchProduct(products, seen.id, ts),
                                           seen.id, product, ts)
                        /\ events' = add_event(events, "product", seen.id, "updated")
                   ELSE IF ~seen.is_active
                   THEN /\ products' = ReactivateProduct(
                                           TouchProduct(products, seen.id, ts),
                                           seen.id, ts)
                        /\ events' = add_event(events, "product", seen.id,
                                               "reactivated")
                   ELSE /\ products' = TouchProduct(products, seen.id, ts)
                        /\ UNCHANGED events
    /\ conns' = [conns EXCEPT !.call[c] = NoSelect]
    /\ UNCHANGED <<clock, ncalls>>
    /\ ConcFrame

NextConc ==
    \E c \in Conns : ConcSelect(c) \/ ConcWrite(c)

\* the state after construction, with either table definition
InitConc ==
    /\ products = <<>>
    /\ files = <<>>
    /\ events = <<>>
    /\ disk = [p \in Paths |-> Missing]
    /\ results_json = <<>>
    /\ files_json = <<>>
    /\ events_json = <<>>
    /\ clock = 0
    /\ pc = "idle"
    /\ run_ts = NoTime
    /\ static_products = FALSE
    /\ dynamic_products = FALSE
    /\ records = {}
    /\ cursor = 0
    /\ ncalls = 0
    /\ last = NoCall
    /\ run_log = {}
    /\ tx = NoTx
    /\ conns \in {[NoConns EXCEPT !.url_unique = unique] : unique \in BOOLEAN}
    /\ io = NoIo
    /\ site = NoSite

SpecConc == InitConc /\ [][NextConc]_vars

-----------------------------------------------------------------------------
(* C15 *)

\* the `created` events of the rows of tbl that hold url
CreatedFor(entity_type, tbl, url) ==
    {n \in DOMAIN events :
        /\ events[n].entity_type = entity_type
        /\ events[n].event_type = "created"
        /\ events[n].entity_id \in DOMAIN tbl
        /\ tbl[events[n].entity_id].url = url}

\* no two rows of products and no two rows of files hold the same url, and a
\* url has at most one `created` event
UniqueKey ==
    /\ \A i, j \in DOMAIN products : products[i].url = products[j].url => i = j
    /\ \A i, j \in DOMAIN files : files[i].url = files[j].url => i = j
    /\ \A i \in DOMAIN products :
          Cardinality(CreatedFor("product", products, products[i].url)) <= 1
    /\ \A i \in DOMAIN files :
          Cardinality(CreatedFor("file", files, files[i].url)) <= 1

\* C15: in every state, also while upsert calls of overlapping runs are under
\* way and after they have committed, at most one row holds a url, and the
\* calls for a url that was not stored leave one row and one `created` event.
C15_UniqueKey == UniqueKey

\* C15, what holds: where the tables have the unique constraint, at most one
\* row holds a url and a url has at most one `created` event.
C15_UniqueWhereConstrained == conns.url_unique => UniqueKey

\* two calls for the same url that was not stored overlapped on tables with
\* the constraint: both SELECTed no row, one has inserted and committed, the
\* other's INSERT has failed; the url has one row and one `created` event
C15_Witness ==
    /\ conns.url_unique
    /\ LastIs("upsert_product")
    /\ last.caller = "overlapping run"
    /\ last.id = 0
    /\ last.ret = "UniqueViolation"
    /\ Cardinality(ProductIdsByUrl(products, last.arg.url)) = 1
    /\ Cardinality(CreatedFor("product", products, last.arg.url)) = 1

-----------------------------------------------------------------------------
(* export_products_to_json and load_json, one write at a time.  An export
   SELECTs the rows, opens data/results.json with mode "w", which empties
   it, and json.dump writes the text through the file's own position: the
   opening bracket, the rows, the closing bracket (the chunks in which the
   buffer reaches the file are taken to be these).  The scheduler's run_all
   and the API process export the same path; load_json reads the file as
   it is. *)

ExportCalls == 4

Bracket(kind) == [kind |-> kind, row |-> <<>>]
RowChunk(r) == [kind |-> "row", row |-> <<r>>]
\* bytes of a gap that a write beyond the end of the file leaves
Hole == Bracket("hole")

\* json.dump(rows, f, ...): the text, in chunks
JsonDump(rows) ==
    <<Bracket("[")>> \o [i \in 1..Len(rows) |-> RowChunk(rows[i])] \o <<Bracket("]")>>

\* f.write of chunk at position k of the file
WriteAt(file, k, chunk) ==
    IF k <= Len(file)
    THEN [file EXCEPT ![k] = chunk]
    ELSE file \o [i \in 1..(k - Len(file) - 1) |-> Hole] \o <<chunk>>

\* the text is a JSON array of rows
IsJson(file) ==
    /\ Len(file) >= 2
    /\ file[1].kind = "["
    /\ file[Len(file)].kind = "]"
    /\ \A i \in 2..(Len(file) - 1) : file[i].kind = "row"

\* load_json(filename): [] when the file does not exist or json.load raises
\* JSONDecodeError
load_json(exists, file) ==
    IF exists /\ IsJson(file)
    THEN [i \in 1..(Len(file) - 2) |-> file[i + 1].row[1]]
    ELSE <<>>

ExportFrame ==
    UNCHANGED <<files, disk, exportv, clock, runv, last, run_log, tx, conns, site>>

\* cur.execute(SELECT ... ORDER BY last_seen_at DESC); rows = cur.fetchall()
ExportSelect(w) ==
    /\ io.writer[w].state = "none"
    /\ ncalls < ExportCalls
    /\ ncalls' = ncalls + 1
    /\ io' = [io EXCEPT !.writer[w] = [state |-> "selected",
                                        rows |-> ExportProducts(products),
                                        pos |-> 0]]
    /\ UNCHANGED <<products, events>>
    /\ ExportFrame

\* open(path, "w", encoding="utf-8")
ExportOpen(w) ==
    /\ io.writer[w].state = "selected"
    /\ io' = [io EXCEPT !.writer[w].state = "open", !.exists = TRUE, !.file = <<>>,
                        !.begun = io.begun \cup {io.writer[w].rows},
                        !.overlapped = io.overlapped \/
                            \E v \in Writers : io.writer[v].state = "open"]
    /\ UNCHANGED <<products, events, ncalls>>
    /\ ExportFrame

\* the next chunk of json.dump reaches the file
ExportWrite(w) ==
    /\ io.writer[w].state = "open"
    /\ io.writer[w].pos < Len(JsonDump(io.writer[w].rows))
    /\ LET k == io.writer[w].pos + 1 IN
       io' = [io EXCEPT !.writer[w].pos = k,
                        !.file = WriteAt(io.file, k, JsonDump(io.writer[w].rows)[k])]
    /\ UNCHANGED <<products, events, ncalls>>
    /\ ExportFrame

\* the with block ends: the export is complete
ExportClose(w) ==
    /\ io.writer[w].state = "open"
    /\ io.writer[w].pos = Len(JsonDump(io.writer[w].rows))
    /\ io' = [io EXCEPT !.writer[w] = NoWriter,
                        !.exported = io.exported \cup {io.writer[w].rows}]
    /\ UNCHANGED <<products, events, ncalls>>
    /\ ExportFrame

\* Reconciler activity beside the exports: an upsert_product commits
ExportReconcile ==
    /\ ncalls < ExportCalls
    /\ ncalls' = ncalls + 1
    /\ clock' = clock + 1
    /\ \E product \in ConcProducts :
          /\ upsert_product(product, clock')
          /\ last' = Call("upsert_product", "scraper", 0, product, clock')
    /\ UNCHANGED <<files, disk, exportv, runv, run_log, tx, conns, io, site>>

\* a request of the API reads the snapshot: load_json("results.json")
ExportRead ==
    /\ ncalls < ExportCalls
    /\ ncalls' = ncalls + 1
    /\ io' = [io EXCEPT !.read = [done |-> TRUE,
                                   rows |-> load_json(io.exists, io.file),
                                   exported |-> io.exported]]
    /\ UNCHANGED <<products, events>>
    /\ ExportFrame

NextExport ==
    \/ \E w \in Writers : \/ ExportSelect(w)
                           \/ ExportOpen(w)
                           \/ ExportWrite(w)
                           \/ ExportClose(w)
    \/ ExportReconcile
    \/ ExportRead

SpecExport == Init /\ [][NextExport]_vars

-----------------------------------------------------------------------------
(* C16 *)

\* C16: whatever runs beside it (upserts, another export of the same file), a
\* read of results.json that follows a completed export returns the complete
\* record list of an export that had completed by then.
C16_ReadsCompleteExport ==
    (io.read.done /\ io.read.exported # {}) => io.read.rows \in io.read.exported

\* C16, one export at a time: while no two exports of the file have
\* overlapped, a read returns the record list of an export that has begun,
\* or the empty list.
C16_ReadsWholeOrNothing ==
    (io.read.done /\ ~io.overlapped) =>
        \/ io.read.rows = <<>>
        \/ io.read.rows \in io.begun

\* a read got the empty list from a file that an export was writing, after
\* an export of one row or more had completed
C16_Witness ==
    /\ io.read.done
    /\ ~io.overlapped
    /\ io.read.rows = <<>>
    /\ io.read.exported # {}
    /\ <<>> \notin io.read.exported

-----------------------------------------------------------------------------
(* C17 *)

Sweeps == {"mark_missing_products", "mark_missing_files"}
\* the step is an upsert that a run makes (scrapers, downloads, file monitor)
RunUpsertStep ==
    /\ last'.op \in {"upsert_product", "upsert_file_record"}
    /\ last'.caller # "api"

\* C17: in a run each sweep is called at most once and with the run's run_ts,
\* no upsert of the run follows a sweep of the run, and a later run has a
\* later run_ts: no upsert with a run_ts comes after the sweep with it.
C17_SweepOrdering ==
    [][/\ \A sweep \in Sweeps :
            last'.op = sweep => (sweep \notin run_log /\ last'.ts = run_ts)
       /\ RunUpsertStep => (run_log \cap Sweeps = {} /\ last'.ts = run_ts)
       /\ (pc = "idle" /\ pc' # "idle") => (run_ts' > run_ts /\ run_log' = {})
       /\ (pc # "idle" \/ pc' = "idle") => run_ts' = run_ts]_vars

\* a run that has upserted products and files has then made both sweeps
C17_Witness ==
    /\ LastIs("mark_missing_files")
    /\ {"upsert_product", "upsert_file_record", "mark_missing_products",
        "mark_missing_files"} \subseteq run_log
    /\ last.ts = run_ts

-----------------------------------------------------------------------------
(* mark_missing_files on a deployment whose STATIC_FILE_URLS names two
   documents: downloads, and sweeps of the run of the last download or of a
   later run *)

CleanupCalls == 4
QuietRuns == 3

CleanupUrls == <<"http://x/a.pdf", "http://x/b.pdf">>
CleanupNames == <<"a.pdf", "b.pdf">>
CleanupPath(i) == DOWNLOADS_DIR \o "/" \o CleanupNames[i]

InitCleanup ==
    /\ products = <<>>
    /\ files = <<>>
    /\ events = <<>>
    /\ disk = [p \in {CleanupPath(i) : i \in DOMAIN CleanupNames} |-> Missing]
    /\ results_json = <<>>
    /\ files_json = <<>>
    /\ events_json = <<>>
    /\ clock = 0
    /\ pc = "idle"
    /\ run_ts = NoTime
    /\ static_products = FALSE
    /\ dynamic_products = FALSE
    /\ records = {}
    /\ cursor = 0
    /\ ncalls = 0
    /\ last = NoCall
    /\ run_log = {}
    /\ tx = NoTx
    /\ conns = NoConns
    /\ io = NoIo
    /\ site = NoSite

CleanupFrame ==
    /\ ncalls < CleanupCalls
    /\ ncalls' = ncalls + 1
    /\ UNCHANGED <<products, exportv, runv, run_log, tx, conns, io, site>>

\* download_static_files: the document answers 200, is written and upserted
CleanupDownload ==
    /\ CleanupFrame
    /\ clock' = clock + 1
    /\ \E i \in DOMAIN CleanupUrls, content \in Contents :
          LET file_info == [url |-> CleanupUrls[i],
                            filename |-> CleanupNames[i],
                            local_path |-> CleanupPath(i),
                            mime_type |-> MimeType,
                            hash |-> compute_file_hash_value(content)]
          IN /\ disk' = [disk EXCEPT ![CleanupPath(i)] = content]
             /\ upsert_file_record(file_info, clock')
             /\ last' = Call("upsert_file_record", "download", 0, file_info, clock')

\* mark_missing_files(run_ts) of the run of the last download, or of a later run
CleanupSweep ==
    /\ CleanupFrame
    /\ \E ts \in {clock, clock + 1} :
          /\ clock' = ts
          /\ mark_missing_files(ts)
          /\ last' = Call("mark_missing_files", "run_all", 0, NoArg, ts)

NextCleanup ==
    \/ CleanupDownload
    \/ CleanupSweep

SpecCleanup == InitCleanup /\ [][NextCleanup]_vars

-----------------------------------------------------------------------------
(* C18 *)

\* the rows of the sweep whose local artifact is still there: local_path is
\* set and exists, so that os.remove was called for it and raised OSError
RemovalFailed ==
    {i \in Stale(PreFiles, last.ts) :
        /\ PreFiles[i].local_path \notin {None, ""}
        /\ disk[PreFiles[i].local_path] # Missing}

\* C18: whichever removals of local artifacts fail, mark_missing_files(run_ts)
\* leaves every stale file inactive with last_change_at = run_ts and with one
\* `deleted` event, the files whose removal failed and the stale files
\* after them alike; no other row changes.
C18_AdvisoryCleanup ==
    LastIs("mark_missing_files") =>
        /\ SweptTo(files, PreFiles, Stale(PreFiles, last.ts), last.ts)
        /\ DeletedOnceEach("file", Stale(PreFiles, last.ts))
        /\ \A i \in Stale(PreFiles, last.ts) :
              ~files[i].is_active /\ files[i].last_change_at = last.ts

\* a sweep of two stale files: the removal of the first one's artifact failed,
\* the second one's artifact is removed, and both files are inactive
C18_Witness ==
    /\ LastIs("mark_missing_files")
    /\ Stale(PreFiles, last.ts) = {1, 2}
    /\ RemovalFailed = {1}
    /\ disk[PreFiles[2].local_path] = Missing
    /\ ~files[1].is_active /\ ~files[2].is_active
    /\ Appended = <<Event("file", 1, "deleted"), Event("file", 2, "deleted")>>

-----------------------------------------------------------------------------
(* C19 *)

\* the step is an upsert of a url that row i of tbl holds
UpsertsRow(op, tbl, i) ==
    /\ last'.op = op
    /\ tbl[i].url = last'.arg.url

\* the sweep op at last'.ts leaves alone every row of tbl seen at that time
\* (or later)
SweepSpares(op, tbl, swept) ==
    last'.op = op =>
        \A i \in DOMAIN tbl : tbl[i].last_seen_at >= last'.ts => swept[i] = tbl[i]

\* C19: an upsert with run_ts of a url that has a row leaves that row with
\* last_seen_at = run_ts, whichever branch it takes (unchanged, changed,
\* reactivated); no step moves a last_seen_at back; and the sweep with run_ts
\* leaves every row with last_seen_at = run_ts as it is.  So the sweep of a
\* run never selects an entity that the run has observed.
C19_SeenNotSwept ==
    [][/\ \A i \in DOMAIN products :
            /\ UpsertsRow("upsert_product", products, i) =>
                   products'[i].last_seen_at = last'.ts
            /\ products'[i].last_seen_at >= products[i].last_seen_at
       /\ \A i \in DOMAIN files :
            /\ UpsertsRow("upsert_file_record", files, i) =>
                   files'[i].last_seen_at = last'.ts
            /\ files'[i].last_seen_at >= files[i].last_seen_at
       /\ SweepSpares("mark_missing_products", products, products')
       /\ SweepSpares("mark_missing_files", files, files')]_vars

\* a product that was swept earlier has been observed again (reactivated) by
\* the run, whose sweep has left it active and has deactivated another one
C19_Witness ==
    /\ LastIs("mark_missing_products")
    /\ \E i, j \in DOMAIN PreProducts :
          /\ \E n \in DOMAIN events : events[n] = Event("product", i, "reactivated")
          /\ PreProducts[i].last_seen_at = last.ts
          /\ PreProducts[i].last_change_at = last.ts
          /\ products[i].is_active
          /\ PreProducts[j].is_active
          /\ ~products[j].is_active

-----------------------------------------------------------------------------
(* C20 *)

\* the step changes last_change_at of row i of tbl (now: the table after it)
Stamped(tbl, now, i) == now[i].last_change_at # tbl[i].last_change_at

\* the step changes an attribute or the fingerprint of the row, or makes an
\* inactive row active
ChangedOrReactivated(fields, tbl, now, i) ==
    \/ ~SameOn(fields, now[i], tbl[i])
    \/ ~tbl[i].is_active /\ now[i].is_active

\* C20: a step changes last_change_at of a product or file only if it changes
\* an attribute or the fingerprint of that entity or reactivates it.
C20_ChangeStamp ==
    [][/\ \A i \in DOMAIN products :
            Stamped(products, products', i) =>
                ChangedOrReactivated(ProductAttributes \cup {"data_hash"},
                                     products, products', i)
       /\ \A i \in DOMAIN files :
            Stamped(files, files', i) =>
                ChangedOrReactivated(FileAttributes \cup {"hash"},
                                     files, files', i)]_vars

\* the step is op, a sweep that deactivates row i, or a call by id on row i
DeactivatesOrEdits(sweep, by_id, tbl, now, i) ==
    \/ last'.op = sweep /\ tbl[i].is_active /\ ~now[i].is_active
    \/ last'.op \in by_id /\ last'.id = i

\* C20 with the deactivations and the manual edits: a step changes
\* last_change_at of an entity only if it is an upsert of the entity that
\* changes its fingerprint or reactivates it, a sweep that deactivates it, a
\* deactivate-by-id of it or a manual edit of it, and then to the run_ts or
\* the time of the call.
C20_ChangeStampAmended ==
    [][/\ \A i \in DOMAIN products :
            Stamped(products, products', i) =>
                /\ products'[i].last_change_at = last'.ts
                /\ \/ /\ UpsertsRow("upsert_product", products, i)
                      /\ ChangedOrReactivated({"data_hash"}, products, products', i)
                   \/ DeactivatesOrEdits("mark_missing_products",
                                         {"deactivate_product_record",
                                          "update_product_record"},
                                         products, products', i)
       /\ \A i \in DOMAIN files :
            Stamped(files, files', i) =>
                /\ files'[i].last_change_at = last'.ts
                /\ \/ /\ UpsertsRow("upsert_file_record", files, i)
                      /\ ChangedOrReactivated({"hash"}, files, files', i)
                   \/ DeactivatesOrEdits("mark_missing_files",
                                         {"deactivate_file_record",
                                          "update_file_record"},
                                         files, files', i)]_vars

\* a sweep has set last_change_at of a product whose attributes and
\* fingerprint it left as they were, and which it did not reactivate
C20_Witness ==
    /\ LastIs("mark_missing_products")
    /\ \E i \in DOMAIN PreProducts :
          /\ products[i].last_change_at = last.ts
          /\ PreProducts[i].last_change_at # last.ts
          /\ SameOn(ProductAttributes \cup {"data_hash"}, products[i], PreProducts[i])
          /\ ~products[i].is_active

-----------------------------------------------------------------------------
(* C21 *)

\* first_seen_at <= last_seen_at on every row of tbl
SeenInOrder(tbl) ==
    \A i \in DOMAIN tbl : tbl[i].first_seen_at <= tbl[i].last_seen_at

\* the step leaves first_seen_at of every row of tbl as it was
FirstSeenKept(tbl, now) ==
    \A i \in DOMAIN tbl : now[i].first_seen_at = tbl[i].first_seen_at

\* C21: in every state first_seen_at <= last_seen_at holds for every product
\* and file, and no step of any operation writes the first_seen_at of a
\* stored row.
C21_FirstSeen ==
    /\ [](SeenInOrder(products) /\ SeenInOrder(files))
    /\ [][FirstSeenKept(products, products') /\ FirstSeenKept(files, files')]_vars

\* a product created by an earlier run has been observed with another price:
\* the row is overwritten, its first_seen_at is the earlier run's
C21_Witness ==
    /\ LastIs("upsert_product")
    /\ PreProductId # 0
    /\ PreProducts[PreProductId].price # last.arg.price
    /\ products[PreProductId].price = last.arg.price
    /\ products[PreProductId].first_seen_at < last.ts
    /\ products[PreProductId].last_seen_at = last.ts

-----------------------------------------------------------------------------
(* C22 *)

\* C22: the current run has called mark_missing_files only if it has
\* reconciled a file (upsert_file_record, from a download or from the file
\* monitor): a run that observed products and no file sweeps no file.
C22_FileSweepGuard ==
    "mark_missing_files" \in run_log => "upsert_file_record" \in run_log

\* C22, what the code keeps: the run has called mark_missing_files only if it
\* has observed a product, and after its mark_missing_products.
C22_ProductGuard ==
    "mark_missing_files" \in run_log =>
        /\ "upsert_product" \in run_log
        /\ "mark_missing_products" \in run_log
        /\ static_products \/ dynamic_products

\* a run that observed a product and reconciled no file has swept the files
\* and has deactivated a file that was active
C22_Witness ==
    /\ LastIs("mark_missing_files")
    /\ "upsert_product" \in run_log
    /\ "upsert_file_record" \notin run_log
    /\ Active(PreFiles) # {}
    /\ Active(files) = {}

-----------------------------------------------------------------------------
(* C23 *)

\* positions of the events of one entity, and the type of its latest event
EventsOf(entity_type, id) ==
    {k \in DOMAIN events : events[k].entity_type = entity_type /\ events[k].entity_id = id}
LatestEvent(entity_type, id) ==
    LET at == EventsOf(entity_type, id) IN
    events[CHOOSE k \in at : \A j \in at : j <= k].event_type

TrailAgrees(entity_type, tbl) ==
    \A i \in DOMAIN tbl :
        EventsOf(entity_type, i) # {} =>
            (~tbl[i].is_active <=> LatestEvent(entity_type, i) = "deleted")

DeletedIsInactive(entity_type, tbl) ==
    \A i \in DOMAIN tbl :
        EventsOf(entity_type, i) # {} /\ LatestEvent(entity_type, i) = "deleted"
            => ~tbl[i].is_active

InactiveIsDeletedOrEdited(entity_type, tbl) ==
    \A i \in DOMAIN tbl :
        EventsOf(entity_type, i) # {} /\ ~tbl[i].is_active
            => LatestEvent(entity_type, i) \in {"deleted", "updated"}

-----------------------------------------------------------------------------
(* The quiet scenario: scheduled runs of run_all over a site that shows the
   same catalog to every run, nothing else touching the store *)

\* What a site may show: the cards the category lists (CatalogUrls[i] for i in
\* listed), the price on the card of CatalogUrls[1], whether the dynamic
\* scraper is enabled (its page lists CatalogUrls[1]), and the document
\* behind STATIC_FILE_URLS (Missing: the download fails)
Sites ==
    [listed : SUBSET DOMAIN CatalogUrls, price : Prices(1), dynamic : BOOLEAN,
     document : Contents \cup {Missing}]

InitQuiet ==
    /\ products = <<>>
    /\ files = <<>>
    /\ events = <<>>
    /\ disk = [p \in Paths |-> Missing]
    /\ results_json = <<>>
    /\ files_json = <<>>
    /\ events_json = <<>>
    /\ clock = 0
    /\ pc = "idle"
    /\ run_ts = NoTime
    /\ static_products = FALSE
    /\ dynamic_products = FALSE
    /\ records = {}
    /\ cursor = 0
    /\ ncalls = 0
    /\ last = NoCall
    /\ run_log = {}
    /\ tx = NoTx
    /\ conns = NoConns
    /\ io = NoIo
    /\ site \in Sites

QuietObserve ==
    /\ StaticObserve
    /\ cursor \in site.listed
    /\ cursor = 1 => last'.arg.price = site.price

QuietSkip ==
    /\ StaticSkip
    /\ cursor \notin site.listed

QuietDownloadFile ==
    /\ DownloadFile
    /\ disk'[LocalPath(cursor)] = site.document

QuietDownloadFail ==
    /\ DownloadFail
    /\ site.document = Missing

QuietDownloadDone ==
    /\ DownloadDone
    /\ pc' = "dynamic" <=> site.dynamic

NextQuiet ==
    \/ StartRunWithin(QuietRuns)
    \/ MonitorSkip
    \/ MonitorDone
    \/ QuietObserve
    \/ QuietSkip
    \/ StaticDone
    \/ QuietDownloadFile
    \/ QuietDownloadFail
    \/ QuietDownloadDone
    \/ DynamicObserve
    \/ DynamicDone
    \/ SweepProducts
    \/ SweepFiles
    \/ SkipSweep
    \/ ExportStep

SpecQuiet == InitQuiet /\ [][NextQuiet]_vars

-----------------------------------------------------------------------------
(* C24 *)

\* the rows of now are those of tbl, but for last_seen_at
SeenOnly(tbl, now) ==
    /\ Len(now) = Len(tbl)
    /\ \A i \in DOMAIN tbl : [now[i] EXCEPT !.last_seen_at = tbl[i].last_seen_at] = tbl[i]

\* no step appends an event or changes a field other than last_seen_at
QuietStep ==
    /\ events' = events
    /\ SeenOnly(products, products')
    /\ SeenOnly(files, files')

\* both scrapers observe CatalogUrls[1] in every run
ObservedTwice == site.dynamic /\ 1 \in site.listed

\* C24: over a site that shows the same catalog to every run, no step of the
\* second or a later run appends an event or changes a field other than
\* last_seen_at, also when the static and the dynamic scraper observe the same
\* URL.
C24_Quiescence == [][ncalls >= 2 => QuietStep]_vars

\* C24, what the code keeps: the same, as long as no URL is observed by both
\* scrapers.
C24_QuiescenceApart == [][(ncalls >= 2 /\ ~ObservedTwice) => QuietStep]_vars

\* the second run over a site where both scrapers are enabled, on different
\* URLs, and the document is served, is complete: the store holds two
\* products and a file and only their `created` events
C24_Witness ==
    /\ ncalls = 2 /\ pc = "idle"
    /\ site.dynamic /\ site.listed = {2} /\ site.document # Missing
    /\ Len(products) = 2 /\ Len(files) = 1
    /\ Len(events) = 3
    /\ \A i \in DOMAIN products : products[i].last_seen_at = run_ts

-----------------------------------------------------------------------------
(* A manual edit overlapping a reconciliation: update_product_record (a request
   of the API, connection 2) and upsert_product (a run, connection 1) on the
   stored product CatalogUrls[1], each with its own connection and one
   transaction; a call is two steps, its SELECT and the rest up to
   conn.commit() *)

Reconciler == 1
Editor == 2

EditObservations == {Card(1, StaticCategory, price) : price \in Prices(1)}

\* The committed effect of upsert_product(product, ts) on a store where the
\* url has a row, seen being what its SELECT id, data_hash, is_active fetched
UpsertProductFrom(prods, evts, product, ts, seen) ==
    IF seen.data_hash # compute_product_hash(product)
    THEN [products |-> OverwriteProduct(TouchProduct(prods, seen.id, ts),
                                        seen.id, product, ts),
          events |-> add_event(evts, "product", seen.id, "updated")]
    ELSE IF ~seen.is_active
    THEN [products |-> ReactivateProduct(TouchProduct(prods, seen.id, ts), seen.id, ts),
          events |-> add_event(evts, "product", seen.id, "reactivated")]
    ELSE [products |-> TouchProduct(prods, seen.id, ts),
          events |-> evts]

\* The committed effect of update_product_record(product_id, updates), row
\* being what its SELECT * fetched
UpdateProductFrom(prods, evts, product_id, updates, now, row) ==
    LET merged == _merge_updates(row, updates, ProductAllowed) IN
    [products |-> [prods EXCEPT ![product_id] = EditedProduct(prods[product_id], merged, now)],
     events |-> add_event(evts, "product", product_id, "updated")]

\* the store at a call's SELECT
Committed == [products |-> products, events |-> events]

EditFrame ==
    UNCHANGED <<files, disk, files_json, events_json, runv, run_log, tx, io, site, ncalls>>

\* the store after a run at time 1 created the product and, for an inactive
\* row, a run at time 2 swept it
InitEdit ==
    /\ \E stored \in EditObservations, swept \in BOOLEAN :
          LET created == UpsertProductEffect(<<>>, <<>>, stored, 1, 0)
              store == IF swept
                       THEN MarkMissingProductsEffect(created.products, created.events, 2)
                       ELSE created
          IN /\ products = store.products
             /\ events = store.events
    /\ files = <<>>
    /\ disk = [p \in Paths |-> Missing]
    /\ results_json = <<>>
    /\ files_json = <<>>
    /\ events_json = <<>>
    /\ clock = 2
    /\ pc = "idle"
    /\ run_ts = NoTime
    /\ static_products = FALSE
    /\ dynamic_products = FALSE
    /\ records = {}
    /\ cursor = 0
    /\ ncalls = 0
    /\ last = NoCall
    /\ run_log = {}
    /\ tx = NoTx
    /\ conns = NoConns
    /\ io = NoIo
    /\ site = NoSite

\* upsert_product up to row = cur.fetchone()
EditUpsertSelect ==
    /\ conns.call[Reconciler].state = "none"
    /\ clock' = clock + 1
    /\ \E product \in EditObservations :
          \E seen \in Selected(products, product.url) :
             conns' = [conns EXCEPT !.call[Reconciler] =
                          [state |-> "selected", arg |-> product, ts |-> clock',
                           seen |-> seen, store |-> Committed, end |-> NoTime]]
    /\ last' = NoCall
    /\ UNCHANGED <<products, events, results_json>>
    /\ EditFrame

\* the rest of upsert_product, and conn.commit()
EditUpsertCommit ==
    /\ conns.call[Reconciler].state = "selected"
    /\ clock' = clock + 1
    /\ LET call == conns.call[Reconciler]
           eff == UpsertProductFrom(products, events, call.arg, call.ts, call.seen)
       IN  /\ products' = eff.products
           /\ events' = eff.events
           /\ last' = Returned(Call("upsert_product", "run_all", call.seen.id,
                                    call.arg, call.ts), None, 0)
           /\ conns' = [conns EXCEPT !.call[Reconciler] =
                           [call EXCEPT !.state = "done", !.end = clock']]
    /\ UNCHANGED results_json
    /\ EditFrame

\* update_product_record up to row = cur.fetchone(); an id without row
\* returns None
EditSelect ==
    /\ conns.call[Editor].state = "none"
    /\ clock' = clock + 1
    /\ \E updates \in ProductPayloads, product_id \in 1 .. Len(products) + 1 :
          LET call == Call("update_product_record", "api", product_id, updates, clock') IN
          IF product_id \in DOMAIN products
          THEN /\ conns' = [conns EXCEPT !.call[Editor] =
                               [state |-> "selected", arg |-> updates, ts |-> clock',
                                seen |-> products[product_id], store |-> Committed,
                                end |-> NoTime]]
               /\ last' = NoCall
          ELSE /\ conns' = [conns EXCEPT !.call[Editor] =
                               [state |-> "done", arg |-> updates, ts |-> clock',
                                seen |-> [id |-> 0], store |-> Committed,
                                end |-> clock']]
               /\ last' = Returned(call, None, HttpStatus(None))
    /\ UNCHANGED <<products, events, results_json>>
    /\ EditFrame

\* the UPDATE with the merged values, add_event, conn.commit() and the export
EditCommit ==
    /\ conns.call[Editor].state = "selected"
    /\ clock' = clock + 1
    /\ LET call == conns.call[Editor]
           eff == UpdateProductFrom(products, events, call.seen.id, call.arg,
                                    call.ts, call.seen)
       IN  /\ products' = eff.products
           /\ events' = eff.events
           /\ last' = Returned(Call("update_product_record", "api", call.seen.id,
                                    call.arg, call.ts), "row", HttpStatus("row"))
           /\ conns' = [conns EXCEPT !.call[Editor] =
                           [call EXCEPT !.state = "done", !.end = clock']]
    /\ export_products_to_json
    /\ EditFrame

NextEdit ==
    \/ EditUpsertSelect
    \/ EditUpsertCommit
    \/ EditSelect
    \/ EditCommit

SpecEdit == InitEdit /\ [][NextEdit]_vars

-----------------------------------------------------------------------------
(* C25 *)

UpsertCall == conns.call[Reconciler]
EditCall == conns.call[Editor]

\* both calls have committed, the edit on the stored product
BothCommitted ==
    /\ UpsertCall.state = "done"
    /\ EditCall.state = "done" /\ EditCall.seen.id # 0

\* the store both calls started from: the one at the earlier SELECT
StartStore == IF UpsertCall.ts < EditCall.ts THEN UpsertCall.store ELSE EditCall.store

\* what upsert_product's SELECT fetches of row i
SeenOf(prods, i) ==
    [id |-> i, data_hash |-> prods[i].data_hash, is_active |-> prods[i].is_active]

\* the two calls one after the other, from store on
SerialUpsert(store) ==
    UpsertProductFrom(store.products, store.events, UpsertCall.arg, UpsertCall.ts,
                      SeenOf(store.products, EditCall.seen.id))
SerialEdit(store) ==
    UpdateProductFrom(store.products, store.events, EditCall.seen.id, EditCall.arg,
                      EditCall.ts, store.products[EditCall.seen.id])
SerialOutcomes ==
    {SerialEdit(SerialUpsert(StartStore)), SerialUpsert(SerialEdit(StartStore))}

Serializable == BothCommitted => Committed \in SerialOutcomes

\* the step is the commit of the manual edit
EditCommits == EditCall.state = "selected" /\ EditCall'.state = "done"

\* the attributes the edit's body does not name stay as committed
UnnamedKept ==
    \A f \in ProductAllowed \ DOMAIN EditCall.arg :
        products'[EditCall.seen.id][f] = products[EditCall.seen.id][f]

\* C25: an upsert_product and an update_product_record of the same product
\* that overlap leave the row and the events of one of the two serial orders,
\* and the commit of the edit changes no attribute its body does not name
\* (it writes back no value it read before the reconciler's commit).
C25_NoLostUpdate ==
    /\ []Serializable
    /\ [][EditCommits => UnnamedKept]_vars

\* the reconciler committed between the edit's SELECT and the edit's commit
Crossed ==
    /\ UpsertCall.state = "done"
    /\ EditCall.state # "none"
    /\ EditCall.ts < UpsertCall.end
    /\ EditCall.state = "done" => UpsertCall.end < EditCall.end

\* each call selected before the other committed
Overlapped ==
    /\ BothCommitted
    /\ UpsertCall.ts < EditCall.end
    /\ EditCall.ts < UpsertCall.end

\* C25, what the code keeps: two calls that do not overlap leave the outcome
\* of a serial order, and an edit during which the reconciler did not commit
\* changes no attribute its body does not name.
C25_NoLostUpdateApart ==
    /\ [](~Overlapped => Serializable)
    /\ [][(EditCommits /\ ~Crossed) => UnnamedKept]_vars

\* the edit began after the upsert of another price had committed, and has
\* committed: the row has the upsert's price and the edit's currency
C25_Witness ==
    /\ BothCommitted /\ ~Overlapped
    /\ UpsertCall.end < EditCall.ts
    /\ UpsertCall.arg.price # StartStore.products[1].price
    /\ "currency" \in DOMAIN EditCall.arg
    /\ products[1].price = UpsertCall.arg.price
    /\ products[1].currency = EditCall.arg.currency

-----------------------------------------------------------------------------
(* C26 *)

\* the last step was a manual edit or a deactivate-by-id that found its row
ManualReturned ==
    /\ last.op \in {"update_product_record", "deactivate_product_record",
                    "update_file_record", "deactivate_file_record"}
    /\ last.ret \in {"row", "True"}

OnProduct == last.op \in {"update_product_record", "deactivate_product_record"}

\* the exported snapshot of the entity's kind shows the row as persisted
EntityExported ==
    IF OnProduct
    THEN \E k \in DOMAIN results_json :
            results_json[k] = ProductSnapshotRow(products[last.id])
    ELSE \E k \in DOMAIN files_json :
            files_json[k] = FileSnapshotRow(files[last.id])

\* the exported events snapshot holds the event the call appended
EventExported ==
    \E k \in DOMAIN events_json :
        /\ events_json[k].id = Len(events)
        /\ events_json[k].entity_type = (IF OnProduct THEN "product" ELSE "file")
        /\ events_json[k].entity_id = last.id
        /\ events_json[k].event_type =
              (IF last.op \in {"update_product_record", "update_file_record"}
               THEN "updated" ELSE "deleted")

\* C26: when a manual edit or a deactivate-by-id has returned with success,
\* the exported snapshot of the entity shows the persisted row and the
\* exported events snapshot holds the `updated` / `deleted` event.
C26_ExportsConsistent ==
    ManualReturned => (EntityExported /\ EventExported)

\* C26, what the code keeps: the exported snapshot of the entity shows the
\* persisted row, and events.json is as it was before the call.
C26_EntityExported ==
    /\ ManualReturned => EntityExported
    /\ [][ManualReturned' => events_json' = events_json]_vars

\* a manual edit of a product has returned: results.json shows the new price,
\* the store has the `updated` event and events.json does not
C26_Witness ==
    /\ LastIs("update_product_record") /\ last.status = 200
    /\ "price" \in DOMAIN last.arg
    /\ \E k \in DOMAIN results_json :
          results_json[k].id = last.id /\ results_json[k].price = last.arg.price
    /\ events[Len(events)] = Event("product", last.id, "updated")
    /\ ~EventExported

-----------------------------------------------------------------------------
(* C27 *)

\* the committed rows of active files whose local artifact is not on disk
ActiveWithoutArtifact ==
    {i \in Active(files) :
        files[i].local_path \in Paths /\ disk[files[i].local_path] = Missing}

SweepAborted == tx.state = "aborted" /\ last.op = "mark_missing_files"

\* C27: when the transaction of mark_missing_files has aborted, every file
\* that is still active in the store has its local artifact: an artifact is
\* removed only for a file whose deactivation is committed.
C27_RemoveCommitted ==
    SweepAborted => ActiveWithoutArtifact = {}

\* the step removes the local artifact at path
Removes(path) == disk[path] # Missing /\ disk'[path] = Missing

\* C27, what the code keeps: an artifact is removed only by mark_missing_files,
\* inside its open transaction, for a file that this transaction has
\* deactivated, and before conn.commit().
C27_RemoveDeactivated ==
    [][\A path \in Paths :
          Removes(path) =>
              /\ tx.state = "open" /\ tx'.state = "open"
              /\ last.op = "mark_missing_files"
              /\ \E i \in DOMAIN tx.files :
                    /\ tx.files[i].local_path = path
                    /\ ~tx.files[i].is_active
                    /\ files[i].is_active]_vars

\* the sweep of a downloaded file has removed the artifact and its
\* transaction has aborted: the file is active and its artifact is gone
C27_Witness ==
    /\ SweepAborted
    /\ tx.todo = <<>>
    /\ ActiveWithoutArtifact # {}
    /\ \A i \in ActiveWithoutArtifact : ~tx.files[i].is_active

====
